---------------------------- MODULE Spec2Model ----------------------------
(***************************************************************************)
(* A model of bumblebee, a JSON transformer: the path parser               *)
(* (namespace.rs), the rule compiler and the rules (rules.rs), the rule    *)
(* arena (tree.rs) and the builder and evaluator (transformer.rs).         *)
(*                                                                         *)
(* Strings are sequences of one-character strings, so that splitting,      *)
(* searching and concatenation are computed as the code computes them.     *)
(* serde_json's Map is a BTreeMap (the tests expect sorted keys): a map is *)
(* a function from keys to values, and two maps are equal when they hold   *)
(* the same entries.  Indices into the arena and into arrays are 0-based   *)
(* as in the code; the sequences that hold them are 1-based.               *)
(***************************************************************************)
EXTENDS Integers, Sequences, FiniteSets, TLC

VARIABLES
    tree,      \* Arena.tree of the builder / transformer: a sequence of nodes
    mode,      \* Mode of the builder / transformer
    phase,     \* "building", "failed" (builder consumed by an error), "built"
               \* (a Transformer) or "applied" (a Transformer after an application)
    added,     \* history: the (namespace, rule) pairs handed to Arena.add, in order
    input,     \* the document of the last application
    result     \* what the last application returned

vars == <<tree, mode, phase, added, input, result>>

-----------------------------------------------------------------------------
(* Bounds of the model.                                                    *)

MaxAdds == 2        \* mappings added to one builder
MaxArrLen == 2      \* length of a top-level input array
MaxArenaAdds == 3   \* Arena.add calls of the arena specification

-----------------------------------------------------------------------------
(* serde_json::Value                                                       *)

Null == [t |-> "null"]
Str(s) == [t |-> "str", s |-> s]
Arr(s) == [t |-> "arr", a |-> s]
Obj(m) == [t |-> "obj", o |-> m]

EmptyMap == <<>>

IsObject(v) == v.t = "obj"
IsArray(v) == v.t = "arr"

\* Map::insert
MapInsert(m, k, v) == [y \in (DOMAIN m) \cup {k} |-> IF y = k THEN v ELSE m[y]]

\* Value::get(&str): Some only on an object that holds the key
HasKey(v, id) == IsObject(v) /\ id \in DOMAIN v.o

\* Value::get(usize): Some only on an array that holds the index
HasIndex(v, index) == IsArray(v) /\ index < Len(v.a)

-----------------------------------------------------------------------------
(* namespace.rs                                                            *)

ObjectNs(id) == [kind |-> "Object", id |-> id]
ArrayNs(id, index) == [kind |-> "Array", id |-> id, index |-> index]

\* the position of the first occurrence of character c in s, 0 when absent
Find(s, c) ==
    IF \E i \in 1..Len(s) : s[i] = c
    THEN CHOOSE i \in 1..Len(s) : s[i] = c /\ \A j \in 1..(i - 1) : s[j] # c
    ELSE 0

\* str::split
RECURSIVE Split(_, _)
Split(s, c) ==
    LET i == Find(s, c) IN
    IF i = 0 THEN <<s>>
    ELSE <<SubSeq(s, 1, i - 1)>> \o Split(SubSeq(s, i + 1, Len(s)), c)

\* the split that keeps an empty trailing substring
SplitTerminator_Keep(s, c) ==
    Split(s, c)

\* str::split_terminator: split, with the trailing substring skipped if empty
SplitTerminator(s, c) ==
    LET p == Split(s, c) IN
    IF p[Len(p)] = <<>> THEN SubSeq(p, 1, Len(p) - 1) ELSE p

Digits == <<"0", "1", "2", "3", "4", "5", "6", "7", "8", "9">>
IsDigit(c) == \E d \in 1..Len(Digits) : Digits[d] = c
DigitVal(c) == (CHOOSE d \in 1..Len(Digits) : Digits[d] = c) - 1

RECURSIVE DigitsVal(_)
DigitsVal(s) ==
    IF s = <<>> THEN 0
    ELSE DigitsVal(SubSeq(s, 1, Len(s) - 1)) * 10 + DigitVal(s[Len(s)])

\* the parse that takes an empty text for 0
ParseUsize_Lenient(s) ==
    LET d == IF s # <<>> /\ s[1] = "+" THEN Tail(s) ELSE s IN
    IF \A i \in 1..Len(d) : IsDigit(d[i])
    THEN [ok |-> TRUE, n |-> DigitsVal(d)]
    ELSE [ok |-> FALSE]

\* str::parse::<usize>: an optional "+", then one or more decimal digits
ParseUsize(s) ==
    LET d == IF s # <<>> /\ s[1] = "+" THEN Tail(s) ELSE s IN
    IF d # <<>> /\ \A i \in 1..Len(d) : IsDigit(d[i])
    THEN [ok |-> TRUE, n |-> DigitsVal(d)]
    ELSE [ok |-> FALSE]

\* the closure that looks for the last '[' of the piece
ParsePiece_LastBracket(v) ==
    LET idx == IF Find(v, "[") = 0 THEN 0
               ELSE CHOOSE i \in 1..Len(v) :
                       v[i] = "[" /\ \A j \in (i + 1)..Len(v) : v[j] # "[" IN
    IF idx # 0
    THEN LET n == ParseUsize(SubSeq(v, idx + 1, Len(v))) IN
         IF n.ok THEN [ok |-> TRUE, ns |-> ArrayNs(SubSeq(v, 1, idx - 1), n.n)]
         ELSE [ok |-> FALSE]
    ELSE [ok |-> TRUE, ns |-> ObjectNs(v)]

\* the closure of Namespace::parse's map: one piece to one segment
ParsePiece(v) ==
    LET idx == Find(v, "[") IN
    IF idx # 0
    THEN LET n == ParseUsize(SubSeq(v, idx + 1, Len(v))) IN
         IF n.ok THEN [ok |-> TRUE, ns |-> ArrayNs(SubSeq(v, 1, idx - 1), n.n)]
         ELSE [ok |-> FALSE]
    ELSE [ok |-> TRUE, ns |-> ObjectNs(v)]

RECURSIVE Flatten2(_)
Flatten2(ss) == IF ss = <<>> THEN <<>> ELSE Head(ss) \o Flatten2(Tail(ss))

\* Namespace::parse
NamespaceParse(s) ==
    LET dots == Split(s, ".")
        pieces == Flatten2([i \in 1..Len(dots) |-> SplitTerminator(dots[i], "]")])
        segs == [i \in 1..Len(pieces) |-> ParsePiece(pieces[i])]
    IN  IF \A i \in 1..Len(segs) : segs[i].ok
        THEN [ok |-> TRUE, ns |-> [i \in 1..Len(segs) |-> segs[i].ns]]
        ELSE [ok |-> FALSE, err |-> "InvalidNamespaceArrayIndex"]

-----------------------------------------------------------------------------
(* rules.rs: Source, Destination and Transform::parse                      *)

SourceDirect(id) == [type |-> "Direct", id |-> id]
SourceDirectArray(id, index) == [type |-> "DirectArray", id |-> id, index |-> index]
SourceConstant(v) == [type |-> "Constant", v |-> v]

DestDirect(namespace, id) ==
    [type |-> "Direct", namespace |-> namespace, id |-> id]
DestDirectArray(namespace, id, index) ==
    [type |-> "DirectArray", namespace |-> namespace, id |-> id, index |-> index]

\* Option<String>
None == [some |-> FALSE]
Some(x) == [some |-> TRUE, x |-> x]

DestFlattenDirect(namespace, id, prefix, separator, manipulation, recursive) ==
    [type |-> "FlattenDirect", namespace |-> namespace, id |-> id,
     prefix |-> prefix, separator |-> separator,
     manipulation |-> manipulation, recursive |-> recursive]
DestFlattenArray(namespace, id, index, prefix, separator, manipulation, recursive) ==
    [type |-> "FlattenArray", namespace |-> namespace, id |-> id, index |-> index,
     prefix |-> prefix, separator |-> separator,
     manipulation |-> manipulation, recursive |-> recursive]

\* Mapping
MappingDirect(from, to) == [kind |-> "Direct", from |-> from, to |-> to]
MappingConstant(from, to) == [kind |-> "Constant", from |-> from, to |-> to]
MappingFlatten(from, to, prefix, separator, manipulation, recursive) ==
    [kind |-> "Flatten", from |-> from, to |-> to, prefix |-> prefix,
     separator |-> separator, manipulation |-> manipulation,
     recursive |-> recursive]

\* Vec::pop on a parsed namespace
PopLast(ns) == SubSeq(ns, 1, Len(ns) - 1)

\* the source descriptor of a popped source leaf
SourceOf(field) ==
    IF field.kind = "Object" THEN SourceDirect(field.id)
    ELSE SourceDirectArray(field.id, field.index)

\* the destination descriptor that keeps an empty id as Some("")
DestinationOf_KeepId(mapping, to_namespace, field) ==
    LET is_flatten == mapping.kind = "Flatten"
        prefix == IF is_flatten /\ mapping.prefix.some THEN mapping.prefix.x ELSE <<>>
        sep == IF is_flatten /\ mapping.separator.some THEN mapping.separator.x ELSE <<>>
    IN  IF field.kind = "Object"
        THEN IF is_flatten
             THEN DestFlattenDirect(to_namespace, Some(field.id),
                      prefix, sep, mapping.manipulation, mapping.recursive)
             ELSE DestDirect(to_namespace, field.id)
        ELSE IF is_flatten
             THEN DestFlattenArray(to_namespace, field.id, field.index,
                      prefix, sep, mapping.manipulation, mapping.recursive)
             ELSE DestDirectArray(to_namespace, field.id, field.index)

\* the destination descriptor of the destination leaf `field`
DestinationOf(mapping, to_namespace, field) ==
    LET is_flatten == mapping.kind = "Flatten"
        prefix == IF is_flatten /\ mapping.prefix.some THEN mapping.prefix.x ELSE <<>>
        sep == IF is_flatten /\ mapping.separator.some THEN mapping.separator.x ELSE <<>>
    IN  IF field.kind = "Object"
        THEN IF is_flatten
             THEN DestFlattenDirect(to_namespace,
                      IF Len(field.id) = 0 THEN None ELSE Some(field.id),
                      prefix, sep, mapping.manipulation, mapping.recursive)
             ELSE DestDirect(to_namespace, field.id)
        ELSE IF is_flatten
             THEN DestFlattenArray(to_namespace, field.id, field.index,
                      prefix, sep, mapping.manipulation, mapping.recursive)
             ELSE DestDirectArray(to_namespace, field.id, field.index)

\* Transform::parse: Ok((from_namespace, Transform)) or the error
TransformParse(mapping) ==
    LET is_flatten == mapping.kind = "Flatten"
        from == IF mapping.kind = "Constant" THEN [ok |-> TRUE, ns |-> <<>>]
                ELSE NamespaceParse(mapping.from)
        to == NamespaceParse(mapping.to)
    IN  IF ~from.ok THEN [ok |-> FALSE, err |-> from.err]
        ELSE IF ~to.ok THEN [ok |-> FALSE, err |-> to.err]
        ELSE IF mapping.kind # "Constant" /\ from.ns = <<>>
        THEN [ok |-> FALSE, err |-> "InvalidNamespace"]
        ELSE IF ~is_flatten /\ to.ns = <<>>
        THEN [ok |-> FALSE, err |-> "InvalidNamespace"]
        ELSE LET source == IF mapping.kind = "Constant"
                           THEN SourceConstant(mapping.from)
                           ELSE SourceOf(from.ns[Len(from.ns)])
                 from_namespace == IF mapping.kind = "Constant" THEN <<>>
                                   ELSE PopLast(from.ns)
                 field == IF to.ns = <<>> THEN ObjectNs(<<>>)
                          ELSE to.ns[Len(to.ns)]
                 to_namespace == IF to.ns = <<>> THEN <<>> ELSE PopLast(to.ns)
             IN  [ok |-> TRUE, ns |-> from_namespace,
                  rule |-> [source |-> source,
                            destination |-> DestinationOf(mapping, to_namespace, field)]]

-----------------------------------------------------------------------------
(* tree.rs: Node, Arena                                                    *)

NoChildren == <<>>     \* children: None
NoRules == <<>>        \* rules: None

NodeObject(id, children, rules) ==
    [kind |-> "Object", id |-> id, children |-> children, rules |-> rules]
NodeArray(index, id, children, rules) ==
    [kind |-> "Array", index |-> index, id |-> id, children |-> children,
     rules |-> rules]

\* tree.get(i).unwrap()
Get(t, i) == t[i + 1]

\* Arena::default
ArenaDefault == <<NodeObject(<<>>, NoChildren, NoRules)>>

\* the new node Arena::add makes for segment ns
NewNode(ns) ==
    IF ns.kind = "Object" THEN NodeObject(ns.id, NoChildren, NoRules)
    ELSE NodeArray(ns.index, ns.id, NoChildren, NoRules)

\* the child test comparing the ids alone
Matches_IdOnly(node, ns) ==
    node.id = ns.id

\* the child test of Arena::add's scan
Matches(node, ns) ==
    IF node.kind = "Object" THEN node.id = ns.id /\ ns.kind = "Object"
    ELSE node.id = ns.id /\ ns.kind = "Array" /\ node.index = ns.index

\* the loop of reindex shifting only the ranges that start after index
ShiftChildren_Strict(node, index) ==
    IF node.children # NoChildren /\ node.children[1] > index
    THEN [node EXCEPT !.children = <<node.children[1] + 1, node.children[2] + 1>>]
    ELSE node

\* the loop of reindex on one node: shift a range that starts at or after index
ShiftChildren(node, index) ==
    IF node.children # NoChildren /\ node.children[1] >= index
    THEN [node EXCEPT !.children = <<node.children[1] + 1, node.children[2] + 1>>]
    ELSE node

\* the parent's update leaving a range that exists as it is
GrowParent_Stale(node, index) ==
    IF node.children # NoChildren
    THEN node
    ELSE [node EXCEPT !.children = <<index, index>>]

\* the parent's update of reindex
GrowParent(node, index) ==
    IF node.children # NoChildren
    THEN [node EXCEPT !.children = <<node.children[1], node.children[2] + 1>>]
    ELSE [node EXCEPT !.children = <<index, index>>]

\* Arena::reindex: every range at or after index moves up by one, the new
\* node ripples into place at index, the parent's range is set or extended
reindex(t, parent_idx, index, node) ==
    LET shifted == [i \in 1..Len(t) |-> ShiftChildren(t[i], index)]
        placed == SubSeq(shifted, 1, index) \o <<node>>
                  \o SubSeq(shifted, index + 1, Len(shifted))
    IN  [placed EXCEPT ![parent_idx + 1] = GrowParent(placed[parent_idx + 1], index)]

\* the first child of node n that matches ns, -1 when none does
FindChild(t, n, ns) ==
    LET c == Get(t, n).children
        hits == IF c = NoChildren THEN {}
                ELSE {idx \in c[1]..c[2] : Matches(Get(t, idx), ns)}
    IN  IF hits = {} THEN -1
        ELSE CHOOSE idx \in hits : \A j \in hits : idx <= j

\* one round of the loop putting a new child before its siblings
AddStep_Front(t, n, ns) ==
    LET c == Get(t, n).children
        found == FindChild(t, n, ns)
    IN  IF found # -1 THEN [tree |-> t, n |-> found]
        ELSE IF c = NoChildren
        THEN [tree |-> reindex(t, n, Len(t), NewNode(ns)), n |-> Len(t)]
        ELSE LET r == reindex(t, n, c[2] + 1, NewNode(ns))
                 moved == [i \in 1..Len(r) |->
                             IF i = c[1] + 1 THEN r[c[2] + 2]
                             ELSE IF i > c[1] + 1 /\ i <= c[2] + 2 THEN r[i - 1]
                             ELSE r[i]]
             IN  [tree |-> moved, n |-> c[1]]

\* one round of Arena::add's 'outer loop, for segment ns at node n
AddStep(t, n, ns) ==
    LET c == Get(t, n).children
        found == FindChild(t, n, ns)
    IN  IF found # -1 THEN [tree |-> t, n |-> found]
        ELSE LET index == IF c # NoChildren THEN c[2] + 1 ELSE Len(t)
             IN  [tree |-> reindex(t, n, index, NewNode(ns)), n |-> index]

\* Arena::add's 'outer loop over namespace[k..]
RECURSIVE AddWalk(_, _, _, _)
AddWalk(t, n, namespace, k) ==
    IF k > Len(namespace) THEN [tree |-> t, n |-> n]
    ELSE LET s == AddStep(t, n, namespace[k])
         IN  AddWalk(s.tree, s.n, namespace, k + 1)

\* the push putting the rule before the node's earlier rules
PushRule_Front(node, rule) ==
    [node EXCEPT !.rules = <<rule>> \o node.rules]

\* the push of the boxed rule at the end of Arena::add
PushRule(node, rule) ==
    [node EXCEPT !.rules = Append(node.rules, rule)]

\* the add that empties the rules of the root node when it adds below it
add_DropRoot(t, namespace, rule) ==
    LET w == AddWalk(t, 0, namespace, 1)
        pushed == [w.tree EXCEPT ![w.n + 1] = PushRule(w.tree[w.n + 1], rule)]
    IN  IF w.n = 0 THEN pushed ELSE [pushed EXCEPT ![1].rules = NoRules]

\* Arena::add
add(t, namespace, rule) ==
    LET w == AddWalk(t, 0, namespace, 1)
    IN  [w.tree EXCEPT ![w.n + 1] = PushRule(w.tree[w.n + 1], rule)]

-----------------------------------------------------------------------------
(* rules.rs: get_last and Rule::apply                                      *)

\* the entry made anew whether the key is held or not
EntryOrInsert_Fresh(current, ns) ==
    IF ns.kind = "Object" THEN Obj(EmptyMap)
    ELSE Arr([i \in 1..ns.index |-> Null])

\* what entry(id).or_insert(..) of get_last yields for segment ns in current
EntryOrInsert(current, ns) ==
    IF ns.id \in DOMAIN current THEN current[ns.id]
    ELSE IF ns.kind = "Object" THEN Obj(EmptyMap)
    ELSE Arr([i \in 1..ns.index |-> Null])

\* get_last: the map that namespace[k..] leads to from current, made where
\* absent; as_object_mut().unwrap() panics on an entry that is no object
RECURSIVE get_last(_, _, _)
get_last(namespace, current, k) ==
    IF k > Len(namespace) THEN [panic |-> FALSE, map |-> current]
    ELSE LET e == EntryOrInsert(current, namespace[k])
         IN  IF IsObject(e) THEN get_last(namespace, e.o, k + 1)
             ELSE [panic |-> TRUE]

\* the map current after the map get_last returned has become last (the
\* writes through the &mut reference that get_last returns)
RECURSIVE put_last(_, _, _, _)
put_last(namespace, current, k, last) ==
    IF k > Len(namespace) THEN last
    ELSE LET e == EntryOrInsert(current, namespace[k])
         IN  MapInsert(current, namespace[k].id,
                       Obj(put_last(namespace, e.o, k + 1, last)))

\* the field read, a literal being taken from the current sub-value
SourceField_FromInput(source, from) ==
    IF source.type = "Direct"
    THEN IF HasKey(from, source.id) THEN from.o[source.id] ELSE Null
    ELSE IF source.type = "DirectArray"
    THEN IF IsObject(from)
         THEN IF HasKey(from, source.id) /\ HasIndex(from.o[source.id], source.index)
              THEN from.o[source.id].a[source.index + 1]
              ELSE Null
         ELSE IF HasIndex(from, source.index) THEN from.a[source.index + 1]
         ELSE Null
    ELSE from

\* the field a Transform reads from the current sub-value
SourceField(source, from) ==
    IF source.type = "Direct"
    THEN IF HasKey(from, source.id) THEN from.o[source.id] ELSE Null
    ELSE IF source.type = "DirectArray"
    THEN IF IsObject(from)
         THEN IF HasKey(from, source.id) /\ HasIndex(from.o[source.id], source.index)
              THEN from.o[source.id].a[source.index + 1]
              ELSE Null
         ELSE IF HasIndex(from, source.index) THEN from.a[source.index + 1]
         ELSE Null
    ELSE source.v

\* the resize that makes one element too many
Resize_Long(arr, index) ==
    IF index >= Len(arr)
    THEN arr \o [i \in 1..(index + 2 - Len(arr)) |-> Null]
    ELSE arr

\* arr.resize_with(index + 1, Value::default) when index >= arr.len()
Resize(arr, index) ==
    IF index >= Len(arr)
    THEN arr \o [i \in 1..(index + 1 - Len(arr)) |-> Null]
    ELSE arr

\* the write that puts a new array in the place of a value that is no array
WriteArray_Replace(current, id, index, value) ==
    IF id \in DOMAIN current /\ IsArray(current[id])
    THEN MapInsert(current, id,
                   Arr([Resize(current[id].a, index) EXCEPT ![index + 1] = value]))
    ELSE MapInsert(current, id, Arr([i \in 1..index |-> Null] \o <<value>>))

\* the write of value at id[index] in map current
WriteArray(current, id, index, value) ==
    IF id \in DOMAIN current
    THEN IF IsArray(current[id])
         THEN MapInsert(current, id,
                        Arr([Resize(current[id].a, index) EXCEPT ![index + 1] = value]))
         ELSE current
    ELSE MapInsert(current, id, Arr([i \in 1..index |-> Null] \o <<value>>))

\* the bytes of the model's strings, in the order of their codes
Alphabet ==
    <<"+", "-", ".", "0", "1", "2", "3", "4", "5", "6", "7", "8", "9",
      "[", "]", "_", "a", "b", "c", "d", "e", "f", "g", "h", "i", "j", "k",
      "l", "m", "n", "o", "p", "q", "r", "s", "t", "u", "v", "w", "x", "y", "z">>

Code(c) == CHOOSE i \in 1..Len(Alphabet) : Alphabet[i] = c

\* the order of String, the key order of serde_json's Map
RECURSIVE StrLess(_, _)
StrLess(a, b) ==
    IF b = <<>> THEN FALSE
    ELSE IF a = <<>> THEN TRUE
    ELSE IF Head(a) # Head(b) THEN Code(Head(a)) < Code(Head(b))
    ELSE StrLess(Tail(a), Tail(b))

\* the keys of a map in iteration order
RECURSIVE SortedKeys(_)
SortedKeys(keys) ==
    IF keys = {} THEN <<>>
    ELSE LET least == CHOOSE k \in keys : \A j \in keys \ {k} : StrLess(k, j)
         IN  <<least>> \o SortedKeys(keys \ {least})

\* usize::to_string
RECURSIVE to_string(_)
to_string(n) ==
    IF n < 10 THEN <<Digits[n + 1]>>
    ELSE to_string(n \div 10) \o <<Digits[(n % 10) + 1]>>

\* the StringManipulation of the tests: input.replace('-', "")
ManipDashRemover == [name |-> "ManipDashRemover"]

ManipApply(manipulation, key) ==
    SelectSeq(key, LAMBDA c : c # "-")

\* the test that takes an Array for a scalar
IsComposite_ObjectOnly(v) ==
    v.t = "obj"

IsComposite(v) ==
    v.t \in {"obj", "arr"}

\* what `for (k, v) in m` and `for (i, v) in arr.iter().enumerate()` yield:
\* the object's entries in key order, the array's with the token (i + 1)
Entries(from) ==
    IF from.t = "obj"
    THEN LET Named(keys) ==
                 [i \in 1..Len(keys) |->
                    [k |-> keys[i], v |-> from.o[keys[i]], named |-> TRUE]]
         IN  Named(SortedKeys(DOMAIN from.o))
    ELSE [i \in 1..Len(from.a) |->
            [k |-> to_string(i), v |-> from.a[i], named |-> FALSE]]

\* the base token of an entry under a manipulation
Base(manipulation, e) ==
    IF e.named THEN ManipApply(manipulation, e.k) ELSE e.k

\* to.insert(key, v.clone()) for each of a sequence of entries
RECURSIVE InsertAll(_, _, _)
InsertAll(to, es, k) ==
    IF k > Len(es) THEN to
    ELSE InsertAll(MapInsert(to, es[k].k, es[k].v), es, k + 1)

RECURSIVE flatten_recursive_with_id(_, _, _, _)
RECURSIVE WithIdLoop(_, _, _, _, _)

\* the loops of flatten_recursive_with_id over the entries from k on
WithIdLoop(sep, id, es, k, to) ==
    IF k > Len(es) THEN to
    ELSE LET key == id \o sep \o es[k].k
         IN  WithIdLoop(sep, id, es, k + 1,
                 IF IsComposite(es[k].v)
                 THEN flatten_recursive_with_id(sep, key, es[k].v, to)
                 ELSE MapInsert(to, key, es[k].v))

flatten_recursive_with_id(sep, id, from, to) ==
    IF IsComposite(from) THEN WithIdLoop(sep, id, Entries(from), 1, to)
    ELSE MapInsert(to, id, from)

\* the loops of flatten_recursive_no_id
RECURSIVE NoIdLoop(_, _, _, _)
NoIdLoop(sep, es, k, to) ==
    IF k > Len(es) THEN to
    ELSE NoIdLoop(sep, es, k + 1,
             IF IsComposite(es[k].v)
             THEN flatten_recursive_with_id(sep, es[k].k, es[k].v, to)
             ELSE MapInsert(to, es[k].k, es[k].v))

flatten_recursive_no_id(sep, id, from, to) ==
    IF IsComposite(from) THEN NoIdLoop(sep, Entries(from), 1, to)
    ELSE MapInsert(to, id, from)

\* the loops of flatten_recursive_with_id_manipulation: a nested value goes
\* to flatten_recursive_with_id
RECURSIVE WithIdManipulationLoop(_, _, _, _, _, _)
WithIdManipulationLoop(manipulation, sep, id, es, k, to) ==
    IF k > Len(es) THEN to
    ELSE LET key == id \o sep \o Base(manipulation, es[k])
         IN  WithIdManipulationLoop(manipulation, sep, id, es, k + 1,
                 IF IsComposite(es[k].v)
                 THEN flatten_recursive_with_id(sep, key, es[k].v, to)
                 ELSE MapInsert(to, key, es[k].v))

flatten_recursive_with_id_manipulation(manipulation, sep, id, from, to) ==
    IF IsComposite(from)
    THEN WithIdManipulationLoop(manipulation, sep, id, Entries(from), 1, to)
    ELSE MapInsert(to, id, from)

\* the loops of flatten_recursive_no_id_manipulation
RECURSIVE NoIdManipulationLoop(_, _, _, _, _)
NoIdManipulationLoop(manipulation, sep, es, k, to) ==
    IF k > Len(es) THEN to
    ELSE LET key == Base(manipulation, es[k])
         IN  NoIdManipulationLoop(manipulation, sep, es, k + 1,
                 IF IsComposite(es[k].v)
                 THEN flatten_recursive_with_id_manipulation(
                          manipulation, sep, key, es[k].v, to)
                 ELSE MapInsert(to, key, es[k].v))

flatten_recursive_no_id_manipulation(manipulation, sep, id, from, to) ==
    IF IsComposite(from)
    THEN NoIdManipulationLoop(manipulation, sep, Entries(from), 1, to)
    ELSE MapInsert(to, id, from)

\* the flatten that writes nothing for a scalar
flatten_single_level_no_id_Skip(id, from, to) ==
    IF IsComposite(from) THEN InsertAll(to, Entries(from), 1)
    ELSE to

flatten_single_level_no_id(id, from, to) ==
    IF IsComposite(from) THEN InsertAll(to, Entries(from), 1)
    ELSE MapInsert(to, id, from)

flatten_single_level_with_id(sep, id, from, to) ==
    IF IsComposite(from)
    THEN LET Keyed(es) ==
                 [i \in 1..Len(es) |-> [k |-> id \o sep \o es[i].k, v |-> es[i].v]]
         IN  InsertAll(to, Keyed(Entries(from)), 1)
    ELSE MapInsert(to, id, from)

flatten_single_level_no_id_manipulation(manipulation, id, from, to) ==
    IF IsComposite(from)
    THEN LET Keyed(es) ==
                 [i \in 1..Len(es) |->
                    [k |-> Base(manipulation, es[i]), v |-> es[i].v]]
         IN  InsertAll(to, Keyed(Entries(from)), 1)
    ELSE MapInsert(to, id, from)

flatten_single_level_with_id_manipulation(manipulation, sep, id, from, to) ==
    IF IsComposite(from)
    THEN LET Keyed(es) ==
                 [i \in 1..Len(es) |->
                    [k |-> id \o sep \o Base(manipulation, es[i]), v |-> es[i].v]]
         IN  InsertAll(to, Keyed(Entries(from)), 1)
    ELSE MapInsert(to, id, from)

\* flatten: the choice among the eight by recursive, manipulation, id.len()
flatten(manipulation, sep, id, from, to, recursive) ==
    IF recursive
    THEN IF manipulation.some
         THEN IF Len(id) = 0
              THEN flatten_recursive_no_id_manipulation(manipulation.x, sep, id, from, to)
              ELSE flatten_recursive_with_id_manipulation(manipulation.x, sep, id, from, to)
         ELSE IF Len(id) = 0
              THEN flatten_recursive_no_id(sep, id, from, to)
              ELSE flatten_recursive_with_id(sep, id, from, to)
    ELSE IF manipulation.some
         THEN IF Len(id) = 0
              THEN flatten_single_level_no_id_manipulation(manipulation.x, id, from, to)
              ELSE flatten_single_level_with_id_manipulation(manipulation.x, sep, id, from, to)
         ELSE IF Len(id) = 0
              THEN flatten_single_level_no_id(id, from, to)
              ELSE flatten_single_level_with_id(sep, id, from, to)

\* the flatten of a Flatten destination into the map to
FlattenInto(destination, field, to) ==
    flatten(destination.manipulation, destination.separator, destination.prefix,
            field, to, destination.recursive)

\* the write whose flatten under an id starts from the entries of current
WriteLast_Into(destination, current, field) ==
    IF destination.type = "Direct"
    THEN MapInsert(current, destination.id, field)
    ELSE IF destination.type = "DirectArray"
    THEN WriteArray(current, destination.id, destination.index, field)
    ELSE IF destination.type = "FlattenDirect" /\ destination.id.some
    THEN MapInsert(current, destination.id.x,
                   Obj(FlattenInto(destination, field, current)))
    ELSE IF destination.type = "FlattenDirect"
    THEN FlattenInto(destination, field, current)
    ELSE WriteArray(current, destination.id, destination.index,
                    Obj(FlattenInto(destination, field, EmptyMap)))

\* the write of a Transform's destination into the map get_last returned
WriteLast(destination, current, field) ==
    IF destination.type = "Direct"
    THEN MapInsert(current, destination.id, field)
    ELSE IF destination.type = "DirectArray"
    THEN WriteArray(current, destination.id, destination.index, field)
    ELSE LET into_current == destination.type = "FlattenDirect"
                                /\ ~destination.id.some
             Written(flat) ==
                 IF destination.type = "FlattenDirect"
                 THEN IF destination.id.some
                      THEN MapInsert(current, destination.id.x, Obj(flat))
                      ELSE flat
                 ELSE WriteArray(current, destination.id, destination.index,
                                 Obj(flat))
         IN  Written(FlattenInto(destination, field,
                                 IF into_current THEN current ELSE EmptyMap))

\* <Transform as Rule>::apply
TransformApply(rule, from, to) ==
    LET field == SourceField(rule.source, from)
        Written(last) ==
            IF last.panic THEN [st |-> "panic", to |-> to]
            ELSE [st |-> "ok",
                  to |-> put_last(rule.destination.namespace, to, 1,
                                  WriteLast(rule.destination, last.map, field))]
    IN  Written(get_last(rule.destination.namespace, to, 1))

\* the rules of the tests of tree.rs: they write nothing and return Ok
MyRule == [custom |-> "MyRule"]
MyRule2 == [custom |-> "MyRule2"]

\* a rule of the caller whose apply writes nothing and returns Err(e)
ErrRule(e) == [custom |-> "ErrRule", err |-> e]

IsTransform(rule) == "source" \in DOMAIN rule
IsErrRule(rule) == "err" \in DOMAIN rule

\* Rule::apply, dispatched on the rule's type
RuleApply(rule, from, to) ==
    IF IsTransform(rule) THEN TransformApply(rule, from, to)
    ELSE IF IsErrRule(rule) THEN [st |-> "err", err |-> rule.err, to |-> to]
    ELSE [st |-> "ok", to |-> to]

-----------------------------------------------------------------------------
(* transformer.rs: transform and transform_recursive                       *)
(*                                                                         *)
(* An evaluation carries [st, to, fired]: st is "ok" until a rule panics   *)
(* or returns an error, to is the output map, and fired records, for the   *)
(* claims about order, each rule application that returned: the node, the  *)
(* rule's position in the node's list, the sub-value it was given and the  *)
(* output map it left.                                                     *)

Fired(n, k, source, to) == [node |-> n, rule |-> k, from |-> source, after |-> to]

\* the evaluation acc ended by the outcome r of a rule: `?` on an Err, or
\* the unwinding of a panic
Halted(acc, r) ==
    IF r.st = "err"
    THEN [st |-> "err", err |-> r.err, to |-> acc.to, fired |-> acc.fired]
    ELSE [acc EXCEPT !.st = r.st]

\* what transform returns for an evaluation that did not end Ok
Failure(r) ==
    IF r.st = "err" THEN [st |-> "err", err |-> r.err] ELSE [st |-> r.st]

\* the loop that goes on to the next rule after an Err
RECURSIVE RulesLoop_GoOn(_, _, _, _, _)
RulesLoop_GoOn(arena, n, k, source, acc) ==
    IF acc.st # "ok" \/ k > Len(Get(arena, n).rules) THEN acc
    ELSE LET Applied(r) ==
                 RulesLoop_GoOn(arena, n, k + 1, source,
                     IF r.st \in {"ok", "err"}
                     THEN [st |-> "ok", to |-> r.to,
                           fired |-> Append(acc.fired, Fired(n, k, source, r.to))]
                     ELSE Halted(acc, r))
         IN  Applied(RuleApply(Get(arena, n).rules[k], source, acc.to))

\* the loop over a node's rules, from rule k on
RECURSIVE RulesLoop(_, _, _, _, _)
RulesLoop(arena, n, k, source, acc) ==
    IF acc.st # "ok" \/ k > Len(Get(arena, n).rules) THEN acc
    ELSE LET Applied(r) ==
                 RulesLoop(arena, n, k + 1, source,
                     IF r.st = "ok"
                     THEN [st |-> "ok", to |-> r.to,
                           fired |-> Append(acc.fired, Fired(n, k, source, r.to))]
                     ELSE Halted(acc, r))
         IN  Applied(RuleApply(Get(arena, n).rules[k], source, acc.to))

\* the sub-value that child node c selects in source, when there is one
ChildFound(c, source) ==
    IF c.kind = "Object" THEN HasKey(source, c.id)
    ELSE IF c.id # <<>>
    THEN HasKey(source, c.id) /\ HasIndex(source.o[c.id], c.index)
    ELSE HasIndex(source, c.index)

ChildValue(c, source) ==
    IF c.kind = "Object" THEN source.o[c.id]
    ELSE IF c.id # <<>> THEN source.o[c.id].a[c.index + 1]
    ELSE source.a[c.index + 1]

RECURSIVE transform_recursive(_, _, _, _)
RECURSIVE ChildrenLoop(_, _, _, _, _)
RECURSIVE ChildrenLoop_NoSkip(_, _, _, _, _)

\* the loop over the children descending with Null where a child is missing
ChildrenLoop_NoSkip(arena, idx, end, source, acc) ==
    IF acc.st # "ok" \/ idx > end THEN acc
    ELSE ChildrenLoop_NoSkip(arena, idx + 1, end, source,
             IF idx < Len(arena)
             THEN transform_recursive(arena, idx,
                      IF ChildFound(Get(arena, idx), source)
                      THEN ChildValue(Get(arena, idx), source) ELSE Null, acc)
             ELSE acc)

\* the loop over the children range, from index idx to end
ChildrenLoop(arena, idx, end, source, acc) ==
    IF acc.st # "ok" \/ idx > end THEN acc
    ELSE ChildrenLoop(arena, idx + 1, end, source,
             IF idx < Len(arena) /\ ChildFound(Get(arena, idx), source)
             THEN transform_recursive(arena, idx,
                      ChildValue(Get(arena, idx), source), acc)
             ELSE acc)

\* the evaluation that goes down to the children before the node's rules
transform_recursive_ChildrenFirst(arena, n, source, acc) ==
    LET c == Get(arena, n).children
        Rules(below) == RulesLoop(arena, n, 1, source, below)
    IN  IF c = NoChildren THEN Rules(acc)
        ELSE Rules(ChildrenLoop(arena, c[1], c[2], source, acc))

\* transform_recursive, on the node at index n
transform_recursive(arena, n, source, acc) ==
    LET c == Get(arena, n).children
        Children(ruled) ==
            IF c = NoChildren THEN ruled
            ELSE ChildrenLoop(arena, c[1], c[2], source, ruled)
    IN  Children(RulesLoop(arena, n, 1, source, acc))

\* one document evaluated against the root node into a new map
EvalRoot(arena, source) ==
    transform_recursive(arena, 0, source,
                        [st |-> "ok", to |-> EmptyMap, fired |-> <<>>])

\* the loop of transform pushing each output before the earlier ones
RECURSIVE ElementsLoop_Reversed(_, _, _, _)
ElementsLoop_Reversed(arena, v, k, new_arr) ==
    IF k > Len(v) THEN [st |-> "ok", val |-> Arr(new_arr)]
    ELSE LET Pushed(r) ==
                 IF r.st # "ok" THEN Failure(r)
                 ELSE ElementsLoop_Reversed(arena, v, k + 1, <<Obj(r.to)>> \o new_arr)
         IN  Pushed(EvalRoot(arena, v[k]))

\* the loop of transform over the elements of a top-level array, from k on
RECURSIVE ElementsLoop(_, _, _, _)
ElementsLoop(arena, v, k, new_arr) ==
    IF k > Len(v) THEN [st |-> "ok", val |-> Arr(new_arr)]
    ELSE LET Pushed(r) ==
                 IF r.st # "ok" THEN Failure(r)
                 ELSE ElementsLoop(arena, v, k + 1, Append(new_arr, Obj(r.to)))
         IN  Pushed(EvalRoot(arena, v[k]))

\* the transform that maps over an array in either mode
transform_AnyMode(m, arena, source) ==
    IF IsArray(source)
    THEN ElementsLoop(arena, source.a, 1, <<>>)
    ELSE LET Returned(r) ==
                 IF r.st # "ok" THEN Failure(r)
                 ELSE [st |-> "ok", val |-> Obj(r.to)]
         IN  Returned(EvalRoot(arena, source))

\* transform
transform(m, arena, source) ==
    IF IsArray(source) /\ m = "Many2Many"
    THEN ElementsLoop(arena, source.a, 1, <<>>)
    ELSE LET Returned(r) ==
                 IF r.st # "ok" THEN Failure(r)
                 ELSE [st |-> "ok", val |-> Obj(r.to)]
         IN  Returned(EvalRoot(arena, source))

-----------------------------------------------------------------------------
(* The inputs of the model: mappings, paths and documents.                 *)

S == Str(<<"s">>)
T == Str(<<"t">>)
K == Str(<<"k">>)

\* the mappings a builder is given
Mappings ==
    { MappingDirect(<<"a">>, <<"x">>),
      MappingDirect(<<"b">>, <<"x">>),
      MappingDirect(<<"a", ".", "b">>, <<"x", ".", "y">>),
      MappingDirect(<<"a", ".", "b", "[", "0", "]">>, <<"y">>),
      MappingDirect(<<"a", "[", "1", "]", ".", "b">>, <<"y">>),
      MappingConstant(K, <<"x">>),
      MappingConstant(K, <<"x", "[", "1", "]">>),
      MappingDirect(<<"a", "[", "]">>, <<"x">>),
      MappingDirect(<<>>, <<"x">>),
      MappingDirect(<<"[", "0", "]">>, <<"z">>) }

\* the values under key "a" of an input object
InnerValues ==
    { Null, S, Arr(<<>>), Arr(<<S>>),
      Arr(<<S, Obj([k \in {<<"b">>} |-> T])>>),
      Obj(EmptyMap),
      Obj([k \in {<<"b">>} |-> T]),
      Obj([k \in {<<"b">>} |-> Arr(<<T>>)]),
      Obj([k \in {<<"b">>} |-> Obj(EmptyMap)]) }

\* input objects: key "a" absent or an inner value, key "b" absent or a string
ObjectDocs ==
    { Obj(EmptyMap), Obj([k \in {<<"b">>} |-> S]) }
    \cup { Obj([k \in {<<"a">>} |-> v]) : v \in InnerValues }
    \cup { Obj([k \in {<<"a">>, <<"b">>} |-> IF k = <<"a">> THEN v ELSE S]) :
             v \in InnerValues }

\* the elements of a top-level input array
Elements ==
    { Null,
      Obj([k \in {<<"a">>} |-> S]),
      Obj([k \in {<<"a">>, <<"b">>} |->
             IF k = <<"a">> THEN Obj([j \in {<<"b">>} |-> T]) ELSE S]),
      Arr(<<S>>) }

RECURSIVE SeqsUpTo(_, _)
SeqsUpTo(set, n) ==
    IF n = 0 THEN {<<>>}
    ELSE LET shorter == SeqsUpTo(set, n - 1)
         IN  shorter \cup {Append(q, e) : q \in shorter, e \in set}

ArrayDocs == {Arr(q) : q \in SeqsUpTo(Elements, MaxArrLen)}

Docs == {Null, S} \cup ObjectDocs \cup ArrayDocs

Modes == {"One2One", "Many2Many"}

NoResult == [st |-> "none"]

-----------------------------------------------------------------------------
(* The builder and the transformer (transformer.rs).                       *)

Init ==
    /\ tree = ArenaDefault
    /\ mode = "Many2Many"
    /\ phase = "building"
    /\ added = <<>>
    /\ input = Null
    /\ result = NoResult

\* TransformerBuilder::mode
SetMode(m) ==
    /\ phase = "building"
    /\ mode' = m
    /\ UNCHANGED <<tree, phase, added, input, result>>

\* TransformerBuilder::add_mapping: Transform::parse, then Arena::add; a
\* parse error consumes the builder
AddMapping(mapping) ==
    /\ phase = "building"
    /\ Len(added) < MaxAdds
    /\ LET Added(p) ==
               IF p.ok
               THEN /\ tree' = add(tree, p.ns, p.rule)
                    /\ added' = Append(added, [ns |-> p.ns, rule |-> p.rule])
                    /\ result' = NoResult
                    /\ phase' = phase
               ELSE /\ phase' = "failed"
                    /\ result' = [st |-> "err", err |-> p.err]
                    /\ UNCHANGED <<tree, added>>
       IN  Added(TransformParse(mapping))
    /\ UNCHANGED <<mode, input>>

\* TransformerBuilder::build
Build ==
    /\ phase = "building"
    /\ phase' = "built"
    /\ UNCHANGED <<tree, mode, added, input, result>>

\* Transformer::apply_to / apply_from_str on a parsed document; the model
\* follows each Transformer through one application
Apply(doc) ==
    /\ phase = "built"
    /\ phase' = "applied"
    /\ input' = doc
    /\ result' = transform(mode, tree, doc)
    /\ UNCHANGED <<tree, mode, added>>

Next ==
    \/ \E m \in Modes : SetMode(m)
    \/ \E mapping \in Mappings : AddMapping(mapping)
    \/ Build
    \/ \E doc \in Docs : Apply(doc)

Spec == Init /\ [][Next]_vars

-----------------------------------------------------------------------------
(* The arena on its own (tree.rs): Arena::add with any namespace, as       *)
(* TransformerBuilder::add hands it over, and the rules of tree.rs's tests.*)

SegA == ObjectNs(<<"a">>)
SegB == ObjectNs(<<"b">>)
SegA1 == ArrayNs(<<"a">>, 1)

\* the namespaces handed to Arena::add
Paths ==
    { <<>>, <<SegB>>, <<SegA1>>,
      <<SegA, SegB>>, <<SegB, SegA>>, <<SegA, SegA, SegB>> }

\* the rules handed to Arena::add: what Transform::parse compiles from a
\* Direct mapping to "x" whose source leaf is "a", or "b"
RuleAX == [source |-> SourceDirect(<<"a">>), destination |-> DestDirect(<<>>, <<"x">>)]
RuleBX == [source |-> SourceDirect(<<"b">>), destination |-> DestDirect(<<>>, <<"x">>)]

ArenaRules == {RuleAX, RuleBX}

\* a document in which every object path of Paths leads to a value
FullDoc ==
    LET leafA == Obj([k \in {<<"a">>, <<"b">>} |-> IF k = <<"a">> THEN S ELSE T])
        leafB == Obj([k \in {<<"a">>, <<"b">>} |-> IF k = <<"a">> THEN T ELSE K])
        midA == Obj([k \in {<<"a">>, <<"b">>} |-> IF k = <<"a">> THEN leafA ELSE leafB])
        midB == Obj([k \in {<<"a">>, <<"b">>} |-> IF k = <<"a">> THEN leafB ELSE leafA])
    IN  Obj([k \in {<<"a">>, <<"b">>} |-> IF k = <<"a">> THEN midA ELSE midB])

\* a document in which "a" is an array wherever it occurs
ArrayDoc ==
    LET leaf == Obj([k \in {<<"a">>, <<"b">>} |->
                       IF k = <<"a">> THEN Arr(<<S, T>>) ELSE K])
    IN  Obj([k \in {<<"a">>, <<"b">>} |->
               IF k = <<"a">> THEN Arr(<<S, leaf>>) ELSE leaf])

ArenaDocs == {FullDoc, ArrayDoc}

\* TransformerBuilder::add
ArenaAdd(namespace, rule) ==
    /\ phase = "building"
    /\ Len(added) < MaxArenaAdds
    /\ tree' = add(tree, namespace, rule)
    /\ added' = Append(added, [ns |-> namespace, rule |-> rule])
    /\ UNCHANGED <<mode, phase, input, result>>

\* TransformerBuilder::mode(One2One) and build, then one application
ArenaApply(doc) ==
    /\ phase = "building"
    /\ phase' = "applied"
    /\ mode' = "One2One"
    /\ input' = doc
    /\ result' = transform("One2One", tree, doc)
    /\ UNCHANGED <<tree, added>>

ArenaNext ==
    \/ \E namespace \in Paths, rule \in ArenaRules : ArenaAdd(namespace, rule)
    \/ \E doc \in ArenaDocs : ArenaApply(doc)

ArenaSpec == Init /\ [][ArenaNext]_vars

-----------------------------------------------------------------------------
(* The flatten rules: a builder is given up to MaxPlain mappings that      *)
(* write plain values and then one flatten mapping of the field a, and the *)
(* Transformer is applied to a document.                                   *)

MaxPlain == 2

Dash1 == <<"k", "-", "1">>
Dash2 == <<"n", "-", "2">>
Dash3 == <<"q", "-", "3">>
KeyM == <<"m">>

\* the Option values of FlattenOps
Prefixes0 == {None, Some(<<"p">>)}
Separators == {None, Some(<<"_">>)}
Manipulations == {None, Some(ManipDashRemover)}

\* add_flatten("a", to, options)
FlattenMappings ==
    { MappingFlatten(<<"a">>, to, prefix, separator, manipulation, recursive) :
        to \in {<<>>, <<"x">>, <<"x", "[", "1", "]">>},
        prefix \in Prefixes0, separator \in Separators,
        manipulation \in Manipulations, recursive \in BOOLEAN }

\* add_constant and add_direct, two of them with an empty `to`
PlainMappings ==
    { MappingConstant(K, <<"x", "[", "0", "]">>),
      MappingConstant(T, <<"x", "[", "2", "]">>),
      MappingConstant(K, <<"x">>),
      MappingConstant(K, <<"m">>),
      MappingConstant(K, <<>>),
      MappingDirect(<<"a">>, <<>>) }

Obj1(k, v) == Obj(MapInsert(EmptyMap, k, v))
Obj2(k1, v1, k2, v2) == Obj(MapInsert(MapInsert(EmptyMap, k1, v1), k2, v2))

\* the values of the field a
FlattenValues ==
    { S,
      Obj(EmptyMap),
      Arr(<<>>),
      Obj2(Dash1, S, KeyM, T),
      Obj1(Dash1, Obj1(Dash2, S)),
      Obj1(Dash1, Obj1(Dash2, Obj1(Dash3, S))),
      Arr(<<S, T>>),
      Arr(<<Obj1(Dash1, S), Arr(<<T>>)>>),
      Obj2(Dash1, Obj(EmptyMap), KeyM, Arr(<<Obj1(Dash3, S), Arr(<<>>)>>)) }

FlattenDocs == {Obj1(<<"a">>, v) : v \in FlattenValues} \cup {Obj(EmptyMap)}

IsFlattenRule(rule) ==
    IsTransform(rule)
      /\ rule.destination.type \in {"FlattenDirect", "FlattenArray"}

\* add_constant / add_direct / add_flatten through add_mapping
FlattenAdd(mapping) ==
    /\ phase = "building"
    /\ \A i \in 1..Len(added) : ~IsFlattenRule(added[i].rule)
    /\ mapping.kind # "Flatten" => Len(added) < MaxPlain
    /\ LET Added(p) ==
               IF p.ok
               THEN /\ tree' = add(tree, p.ns, p.rule)
                    /\ added' = Append(added, [ns |-> p.ns, rule |-> p.rule])
                    /\ result' = NoResult
                    /\ phase' = phase
               ELSE /\ phase' = "failed"
                    /\ result' = [st |-> "err", err |-> p.err]
                    /\ UNCHANGED <<tree, added>>
       IN  Added(TransformParse(mapping))
    /\ UNCHANGED <<mode, input>>

\* build, then one application
FlattenApply(doc) ==
    /\ phase = "building"
    /\ phase' = "applied"
    /\ input' = doc
    /\ result' = transform(mode, tree, doc)
    /\ UNCHANGED <<tree, mode, added>>

FlattenNext ==
    \/ \E mapping \in PlainMappings \cup FlattenMappings : FlattenAdd(mapping)
    \/ \E doc \in FlattenDocs : FlattenApply(doc)

FlattenSpec == Init /\ [][FlattenNext]_vars

-----------------------------------------------------------------------------
(* What the claims speak of.                                               *)

\* the index of the node that path leads to from node n, by the descent of
\* Arena::add; -1 when a segment has no matching child
RECURSIVE ResolveFrom(_, _, _, _)
ResolveFrom(t, n, path, k) ==
    IF k > Len(path) THEN n
    ELSE LET c == FindChild(t, n, path[k])
         IN  IF c = -1 THEN -1 ELSE ResolveFrom(t, c, path, k + 1)

Resolve(t, path) == ResolveFrom(t, 0, path, 1)

\* the paths of the nodes the adds so far have asked for: every prefix of
\* every namespace added, the empty path of the root included
PrefixesOf(log) ==
    UNION {{SubSeq(log[i].ns, 1, k) : k \in 0..Len(log[i].ns)} : i \in 1..Len(log)}
    \cup {<<>>}

Prefixes == PrefixesOf(added)

\* the prefixes that are one segment longer than p
ChildPrefixes(p) ==
    {q \in Prefixes : Len(q) = Len(p) + 1 /\ SubSeq(q, 1, Len(p)) = p}

\* the indices of a node's children range
ChildrenOf(t, n) ==
    IF Get(t, n).children = NoChildren THEN {}
    ELSE Get(t, n).children[1]..Get(t, n).children[2]

Indices(t) == 0..(Len(t) - 1)

\* the path segment a node stands for
SegOf(node) ==
    IF node.kind = "Object" THEN ObjectNs(node.id)
    ELSE ArrayNs(node.id, node.index)

\* the rules added at path p, in add order
RECURSIVE RulesAt(_, _)
RulesAt(log, p) ==
    IF log = <<>> THEN <<>>
    ELSE IF Head(log).ns = p THEN <<Head(log).rule>> \o RulesAt(Tail(log), p)
    ELSE RulesAt(Tail(log), p)

\* the position in the history of the add that first asked for path q
Created(q) ==
    CHOOSE i \in 1..Len(added) :
        /\ Len(added[i].ns) >= Len(q) /\ SubSeq(added[i].ns, 1, Len(q)) = q
        /\ \A j \in 1..(i - 1) :
             ~(Len(added[j].ns) >= Len(q) /\ SubSeq(added[j].ns, 1, Len(q)) = q)

\* the rule applications of the last application, in execution order (one
\* document was evaluated: the mode is One2One or the input is no array)
Trace == EvalRoot(tree, input).fired

\* the positions in the trace of the applications of node n's rules
TraceAt(n) == {i \in 1..Len(Trace) : Trace[i].node = n}

Applied == phase = "applied" /\ result.st = "ok"

\* the last add of a step that added
LastAdd == added'[Len(added')]
Adds == Len(added') = Len(added) + 1

-----------------------------------------------------------------------------
(* C8: after any sequence of Arena.add calls, every children range         *)
(* (start, end) has start <= end, holds exactly the direct children of its *)
(* node (the nodes of the added paths one segment longer than the node's   *)
(* path), and the ranges of different nodes are pairwise disjoint.         *)
C8_Contiguous ==
    LET pre == Prefixes
        at == [p \in pre |-> Resolve(tree, p)]
    IN  /\ \A p \in pre : at[p] # -1
        /\ \A i \in Indices(tree) : \E p \in pre : at[p] = i
        /\ \A p \in pre :
             LET c == Get(tree, at[p]).children
                 kids == {q \in pre : Len(q) = Len(p) + 1 /\ SubSeq(q, 1, Len(p)) = p}
             IN  /\ c # NoChildren => c[1] <= c[2] /\ c[2] < Len(tree)
                 /\ {at[q] : q \in kids} = ChildrenOf(tree, at[p])
                 /\ \A q \in kids : SegOf(Get(tree, at[q])) = q[Len(q)]
        /\ \A i, j \in Indices(tree) :
             i # j => ChildrenOf(tree, i) \cap ChildrenOf(tree, j) = {}

\* an insertion in the middle: a node other than the root has two children
\* and the root has two, so a later sibling group was moved up
C8_Witness ==
    /\ Cardinality(ChildrenOf(tree, 0)) >= 2
    /\ \E n \in Indices(tree) : n # 0 /\ Cardinality(ChildrenOf(tree, n)) >= 2

(* C10: after any sequence of Arena.add calls the arena is a tree rooted   *)
(* at index 0: node 0 is an Object with empty id in no children range,     *)
(* every other index lies in exactly one children range, whose owner has a *)
(* smaller index; an evaluation applies no rule of a node twice.           *)
C10_Tree ==
    /\ Len(tree) >= 1
    /\ Get(tree, 0).kind = "Object" /\ Get(tree, 0).id = <<>>
    /\ \A i \in Indices(tree) :
         LET owners == {n \in Indices(tree) : i \in ChildrenOf(tree, n)}
         IN  IF i = 0 THEN owners = {}
             ELSE Cardinality(owners) = 1 /\ \A n \in owners : n < i
    /\ Applied =>
         LET tr == Trace
         IN  \A i, j \in 1..Len(tr) :
                (tr[i].node = tr[j].node /\ tr[i].rule = tr[j].rule) => i = j

\* an applied arena three levels deep, whose rules all fired
C10_Witness ==
    /\ Applied
    /\ \E p \in Prefixes : Len(p) = 3
    /\ Len(Trace) = Len(added) /\ Len(added) = 3

(* C9: an add along a path whose every segment has a matching child makes  *)
(* no node and appends the rule to the existing node; hence no two         *)
(* children of one parent share (kind, id, index), the tree length is 1    *)
(* plus the number of distinct non-empty path prefixes added, and two      *)
(* rules added at the same path sit on one shared node.                    *)
C9_NoDuplicates ==
    /\ \A n \in Indices(tree) : \A i, j \in ChildrenOf(tree, n) :
         SegOf(Get(tree, i)) = SegOf(Get(tree, j)) => i = j
    /\ Len(tree) = 1 + Cardinality(Prefixes \ {<<>>})
    /\ \A i, j \in 1..Len(added) :
         added[i].ns = added[j].ns /\ i < j =>
            LET n == Resolve(tree, added[i].ns)
            IN  /\ n # -1
                /\ \E k, l \in 1..Len(Get(tree, n).rules) :
                      /\ k < l
                      /\ Get(tree, n).rules[k] = added[i].rule
                      /\ Get(tree, n).rules[l] = added[j].rule

C9_Reuse ==
    (Adds /\ Resolve(tree, LastAdd.ns) # -1) =>
        LET n == Resolve(tree, LastAdd.ns)
        IN  tree' = [tree EXCEPT ![n + 1].rules = Append(@, LastAdd.rule)]

C9_IdempotentPaths == []C9_NoDuplicates /\ [][C9_Reuse]_vars

\* the same three-segment path added twice, and a third add elsewhere
C9_Witness ==
    \E i, j \in 1..Len(added) :
        /\ i < j /\ added[i].ns = added[j].ns /\ Len(added[i].ns) = 3
        /\ Len(Get(tree, Resolve(tree, added[i].ns)).rules) = 2
        /\ Len(added) = 3

(* C7: the children of one parent stand in the arena in the order in which *)
(* they were first created, whatever was inserted under other parents in   *)
(* between, and the evaluator applies the rules of a later-created sibling *)
(* after those of every earlier-created sibling.                           *)
C7_SiblingOrder ==
    LET pre == Prefixes
        at == [p \in pre |-> Resolve(tree, p)]
        made == [p \in pre \ {<<>>} |-> Created(p)]
        tr == IF Applied THEN Trace ELSE <<>>
    IN  \A q1, q2 \in pre \ {<<>>} :
           ( /\ Len(q1) = Len(q2)
             /\ SubSeq(q1, 1, Len(q1) - 1) = SubSeq(q2, 1, Len(q2) - 1)
             /\ made[q1] < made[q2] ) =>
               /\ at[q1] # -1 /\ at[q2] # -1
               /\ at[q1] < at[q2]
               /\ \A i, j \in 1..Len(tr) :
                     (tr[i].node = at[q1] /\ tr[j].node = at[q2]) => i < j

\* two siblings below the root's child "a", an add under another parent in
\* between their creation, and rules of both fired
C7_Witness ==
    /\ Applied
    /\ Len(added) = 3
    /\ added[1].ns = <<SegA, SegA, SegB>>
    /\ added[2].ns = <<SegB, SegA>>
    /\ added[3].ns = <<SegA, SegB>>
    /\ TraceAt(Resolve(tree, <<SegA, SegB>>)) # {}
    /\ TraceAt(Resolve(tree, <<SegA, SegA, SegB>>)) # {}

(* C6: the rules list of every node is exactly the sequence of the rules   *)
(* added at that node's path, in add order; evaluation applies them in     *)
(* that order; and of two rules on one node that write the same            *)
(* destination key, the later-added one determines the value.              *)
C6_RuleOrder ==
    /\ \A p \in Prefixes :
         LET n == Resolve(tree, p)
         IN  n # -1 /\ Get(tree, n).rules = RulesAt(added, p)
    /\ Applied =>
         LET tr == Trace
             rule(i) == Get(tree, tr[i].node).rules[tr[i].rule]
         IN  /\ \A i, j \in 1..Len(tr) :
                  (tr[i].node = tr[j].node /\ tr[i].rule < tr[j].rule) => i < j
             /\ \A i \in 1..Len(tr) :
                  /\ \A k \in 1..tr[i].rule :
                       \E j \in 1..i : tr[j].node = tr[i].node /\ tr[j].rule = k
                  /\ tr[i].after[rule(i).destination.id]
                       = SourceField(rule(i).source, tr[i].from)
             /\ tr # <<>> =>
                  result.val.o[rule(Len(tr)).destination.id]
                     = SourceField(rule(Len(tr)).source, tr[Len(tr)].from)

\* two rules with different sources on one node below the root, an add at
\* another path in between, both applied: the later one's value is in the
\* output
C6_Witness ==
    /\ Applied
    /\ Len(added) = 3
    /\ added[1].ns = added[3].ns /\ added[1].ns # added[2].ns
    /\ added[1].ns # <<>>
    /\ added[1].rule # added[3].rule
    /\ LET n == Resolve(tree, added[1].ns)
           tr == Trace
       IN  /\ Cardinality(TraceAt(n)) = 2
           /\ tr[Len(tr)].node = n
           /\ SourceField(added[1].rule.source, tr[Len(tr)].from)
                # SourceField(added[3].rule.source, tr[Len(tr)].from)

-----------------------------------------------------------------------------
(* What the claims about evaluation speak of.                              *)

\* the sub-value of doc that path[k..] names, read as the path language
\* reads: an Object segment names a key of an object, an Array segment an
\* element of the named array (of the current value when the id is empty)
RECURSIVE SourceAt(_, _, _)
SourceAt(doc, path, k) ==
    IF k > Len(path) THEN [found |-> TRUE, v |-> doc]
    ELSE LET seg == path[k]
             named == IF seg.id = <<>> /\ seg.kind = "Array"
                      THEN [found |-> TRUE, v |-> doc]
                      ELSE IF doc.t = "obj" /\ seg.id \in DOMAIN doc.o
                      THEN [found |-> TRUE, v |-> doc.o[seg.id]]
                      ELSE [found |-> FALSE]
         IN  IF ~named.found THEN [found |-> FALSE]
             ELSE IF seg.kind = "Object" THEN SourceAt(named.v, path, k + 1)
             ELSE IF named.v.t = "arr" /\ seg.index < Len(named.v.a)
             THEN SourceAt(named.v.a[seg.index + 1], path, k + 1)
             ELSE [found |-> FALSE]

\* the path segment of a rule's source leaf
LeafOf(source) ==
    IF source.type = "Direct" THEN ObjectNs(source.id)
    ELSE ArrayNs(source.id, source.index)

\* the value at a Direct or DirectArray destination in an output map
RECURSIVE DestAt(_, _, _)
DestAt(destination, map, k) ==
    IF k <= Len(destination.namespace)
    THEN LET id == destination.namespace[k].id
         IN  IF id \in DOMAIN map /\ map[id].t = "obj"
             THEN DestAt(destination, map[id].o, k + 1)
             ELSE [found |-> FALSE]
    ELSE IF destination.id \notin DOMAIN map THEN [found |-> FALSE]
    ELSE IF destination.type = "Direct"
    THEN [found |-> TRUE, v |-> map[destination.id]]
    ELSE IF map[destination.id].t = "arr"
            /\ destination.index < Len(map[destination.id].a)
    THEN [found |-> TRUE, v |-> map[destination.id].a[destination.index + 1]]
    ELSE [found |-> FALSE]

\* the arena a builder makes of a history of adds
RECURSIVE BuildArena(_)
BuildArena(log) ==
    IF log = <<>> THEN ArenaDefault
    ELSE add(BuildArena(SubSeq(log, 1, Len(log) - 1)),
             log[Len(log)].ns, log[Len(log)].rule)

\* the adds of a history whose namespace leads to a value in doc
RECURSIVE Resolving(_, _)
Resolving(log, doc) ==
    IF log = <<>> THEN <<>>
    ELSE IF SourceAt(doc, Head(log).ns, 1).found
    THEN <<Head(log)>> \o Resolving(Tail(log), doc)
    ELSE Resolving(Tail(log), doc)

\* the documents the last application evaluated the root node against
EvalDocs ==
    IF mode = "Many2Many" /\ IsArray(input) THEN input.a ELSE <<input>>

\* the path of the node at index n
PathOfNode(n) == CHOOSE p \in Prefixes : Resolve(tree, p) = n

\* an application's result from the evaluations T of the elements: the
\* array of the outputs, or the first failure
RECURSIVE Collect(_, _, _)
Collect(outs, k, acc) ==
    IF k > Len(outs) THEN [st |-> "ok", val |-> Arr(acc)]
    ELSE IF outs[k].st # "ok" THEN [st |-> outs[k].st]
    ELSE Collect(outs, k + 1, Append(acc, outs[k].val))

Done == phase = "applied"

-----------------------------------------------------------------------------
(* C1, as stated: in Many2Many mode the result for a top-level array       *)
(* [a, b, c] of arbitrary values, arrays included, is [T(a), T(b), T(c)],  *)
(* T(x) being what the same Transformer returns for the document x.        *)
C1_Original ==
    (Done /\ mode = "Many2Many" /\ IsArray(input)) =>
        result = Collect([i \in 1..Len(input.a) |->
                            transform(mode, tree, input.a[i])], 1, <<>>)

(* C1, amended: in Many2Many mode the result for a top-level array         *)
(* [a, b, c] is [T(a), T(b), T(c)] in the same order, T(x) being the       *)
(* evaluation of the root node once against x: what the Transformer        *)
(* returns for x when x is no array, and what it returns in One2One mode   *)
(* when x is an array; the application fails when some T(x) fails.         *)
C1_ManyToMany ==
    (Done /\ mode = "Many2Many" /\ IsArray(input)) =>
        /\ result = Collect([i \in 1..Len(input.a) |->
                               transform("One2One", tree, input.a[i])], 1, <<>>)
        /\ \A i \in 1..Len(input.a) :
             ~IsArray(input.a[i]) =>
                transform("One2One", tree, input.a[i])
                   = transform(mode, tree, input.a[i])

\* two different elements, the second an object, give two different outputs
C1_Witness ==
    /\ Done /\ mode = "Many2Many" /\ IsArray(input)
    /\ result.st = "ok"
    /\ Len(input.a) = 2 /\ Len(result.val.a) = 2
    /\ input.a[1] # input.a[2]
    /\ IsObject(input.a[2])
    /\ result.val.a[1] # result.val.a[2]
    /\ result.val.a[2] # Obj(EmptyMap)

(* C2: for a Direct rule from X to Y whose source walk-path resolves in    *)
(* the input, if the leaf of X is absent there (key not in the object, the *)
(* sub-value no object, the named value no array, or the index out of      *)
(* bounds), output[Y] is present and equals Null.  Stated for a            *)
(* Transformer that holds this one rule.                                   *)
C2_MissingIsNull ==
    (Done /\ result.st = "ok" /\ Len(added) = 1
       /\ added[1].rule.source.type # "Constant") =>
        \A i \in 1..Len(EvalDocs) :
           LET at == SourceAt(EvalDocs[i], added[1].ns, 1)
               out == IF Len(EvalDocs) = 1 /\ ~(mode = "Many2Many" /\ IsArray(input))
                      THEN result.val.o ELSE result.val.a[i].o
           IN  (at.found /\ ~SourceAt(at.v, <<LeafOf(added[1].rule.source)>>, 1).found)
                  => DestAt(added[1].rule.destination, out, 1)
                        = [found |-> TRUE, v |-> Null]

(* C4: for every Direct rule and every input document, when the rule's     *)
(* source value is not found in the input, at whatever depth of the source *)
(* path the lookup fails, the rule's destination is present in the output  *)
(* with the value null.  Stated for a Transformer that holds this one rule.*)
C4_NotFoundIsNull ==
    (Done /\ result.st = "ok" /\ Len(added) = 1
       /\ added[1].rule.source.type # "Constant") =>
        \A i \in 1..Len(EvalDocs) :
           LET full == Append(added[1].ns, LeafOf(added[1].rule.source))
               out == IF Len(EvalDocs) = 1 /\ ~(mode = "Many2Many" /\ IsArray(input))
                      THEN result.val.o ELSE result.val.a[i].o
           IN  ~SourceAt(EvalDocs[i], full, 1).found
                  => DestAt(added[1].rule.destination, out, 1)
                        = [found |-> TRUE, v |-> Null]

\* the arena without the rules of the nodes whose path leads nowhere in doc
Pruned(doc) ==
    [i \in DOMAIN tree |->
        IF SourceAt(doc, PathOfNode(i - 1), 1).found THEN tree[i]
        ELSE [tree[i] EXCEPT !.rules = NoRules]]

\* the adds whose namespace leads nowhere in doc
Skipped(doc) ==
    { j \in 1..Len(added) : ~SourceAt(doc, added[j].ns, 1).found }

ConstantRules ==
    { k \in 1..Len(Get(tree, 0).rules) :
        IsTransform(Get(tree, 0).rules[k])
          /\ Get(tree, 0).rules[k].source.type = "Constant" }

\* the value under the destination's id, whatever the kind of destination
HeldAt(destination, map) ==
    DestAt([type |-> "Direct", id |-> destination.id,
            namespace |-> destination.namespace], map, 1)

RuleOf(e) == Get(tree, e.node).rules[e.rule]
BeforeOf(j) == IF j = 1 THEN EmptyMap ELSE Trace[j - 1].after

\* the value a rule application writes at its destination
WrittenBy(e) ==
    LET rule == RuleOf(e)
        field == SourceField(rule.source, e.from)
    IN  IF rule.destination.type \in {"Direct", "DirectArray"} THEN field
        ELSE Obj(FlattenInto(rule.destination, field, EmptyMap))

(* C11: a write to id[index] (DirectArray or FlattenArray) creates, when   *)
(* output[id] is missing, an array of length index+1, and grows an         *)
(* existing array shorter than index+1 to exactly that length; position    *)
(* index holds the written value, new positions hold Null, existing        *)
(* elements keep their values, and a longer array keeps its length.        *)
C11_ArrayGrowth ==
    Done =>
       \A j \in 1..Len(Trace) :
          LET dest == RuleOf(Trace[j]).destination
              held == HeldAt(dest, BeforeOf(j))
              now == HeldAt(dest, Trace[j].after)
              old == IF held.found THEN held.v.a ELSE <<>>
          IN  (dest.type \in {"DirectArray", "FlattenArray"}
                 /\ (held.found => held.v.t = "arr")) =>
                /\ now.found /\ now.v.t = "arr"
                /\ Len(now.v.a) = IF Len(old) > dest.index THEN Len(old)
                                  ELSE dest.index + 1
                /\ now.v.a[dest.index + 1] = WrittenBy(Trace[j])
                /\ \A i \in 1..Len(now.v.a) :
                      i # dest.index + 1 =>
                         now.v.a[i] = IF i <= Len(old) THEN old[i] ELSE Null

\* x[2] is written into a missing x, x[0] into the array of three, and the
\* flatten of a into x[1] leaves both and the length as they are
C11_Witness ==
    /\ Done /\ result.st = "ok" /\ Len(added) = 3 /\ Len(Trace) = 3
    /\ added[1].rule.destination.type = "DirectArray"
    /\ added[2].rule.destination.type = "DirectArray"
    /\ added[1].rule.destination.index = 2
    /\ added[2].rule.destination.index = 0
    /\ added[3].rule.destination.type = "FlattenArray"
    /\ Trace[1].after[<<"x">>] = Arr(<<Null, Null, T>>)
    /\ Trace[2].after[<<"x">>] = Arr(<<K, Null, T>>)
    /\ result.val.o[<<"x">>].a[2] = Obj2(<<"p", "_", "1">>, S, <<"p", "_", "2">>, T)
    /\ Len(result.val.o[<<"x">>].a) = 3

\* the applications of flatten rules in the trace whose field is an Object
\* or an Array
FlattenSteps ==
    { j \in 1..Len(Trace) :
        /\ IsFlattenRule(RuleOf(Trace[j]))
        /\ SourceField(RuleOf(Trace[j]).source, Trace[j].from).t \in {"obj", "arr"} }

FieldOf(j) == SourceField(RuleOf(Trace[j]).source, Trace[j].from)

\* the entries a flatten rule application has left in the output: the map
\* under id, the map at id[index], or the keys it added to the map itself
\* or gave another value
FlatWritten(j) ==
    LET dest == RuleOf(Trace[j]).destination
        after == Trace[j].after
        held == HeldAt(dest, after)
    IN  IF dest.type = "FlattenArray"
        THEN IF held.found /\ held.v.t = "arr" /\ BeforeOf(j) # after
             THEN [found |-> TRUE, m |-> held.v.a[dest.index + 1].o]
             ELSE [found |-> FALSE]
        ELSE IF dest.id.some
        THEN [found |-> TRUE, m |-> after[dest.id.x].o]
        ELSE [found |-> TRUE,
              m |-> [k \in {h \in DOMAIN after :
                               h \in DOMAIN BeforeOf(j) => after[h] # BeforeOf(j)[h]}
                       |-> after[k]]]

\* the entries of a flatten by the rule of the keys: the key of an entry is
\* prefix + separator + base under a non-empty prefix and base alone under
\* an empty one, base being the key (manipulated, if a manipulation is set)
\* or the 1-based index; a recursive flatten goes into a nested Object or
\* Array with that key as the prefix
RECURSIVE KeyedEntries(_, _, _, _, _, _)
KeyedEntries(prefix, sep, manipulation, recursive, es, i) ==
    IF i > Len(es) THEN <<>>
    ELSE LET base == IF es[i].named /\ manipulation.some
                     THEN ManipApply(manipulation.x, es[i].k) ELSE es[i].k
             key == IF prefix # <<>> THEN prefix \o sep \o base ELSE base
         IN  (IF recursive /\ es[i].v.t \in {"obj", "arr"}
              THEN KeyedEntries(key, sep, manipulation, recursive,
                                Entries(es[i].v), 1)
              ELSE <<[k |-> key, v |-> es[i].v]>>)
             \o KeyedEntries(prefix, sep, manipulation, recursive, es, i + 1)

(* C12: every entry written by flatten, at every nesting level, has the    *)
(* key prefix + separator + base when the current prefix is non-empty and  *)
(* base alone when it is empty, base being the object key (after           *)
(* manipulation, if any) or the 1-based decimal index of the array         *)
(* element, and the prefix inside a nested Object or Array of a recursive  *)
(* flatten being the key derived for that nested value.                    *)
C12_FlattenKeys ==
    Done =>
       \A j \in FlattenSteps :
          LET dest == RuleOf(Trace[j]).destination
          IN  FlatWritten(j).found =>
                 FlatWritten(j).m
                    = InsertAll(EmptyMap,
                                KeyedEntries(dest.prefix, dest.separator,
                                             dest.manipulation, dest.recursive,
                                             Entries(FieldOf(j)), 1), 1)

\* the value with the manipulation applied to the keys of its Object, and
\* when deep to the keys of the Objects nested in it at every depth
RECURSIVE ManipKeys(_, _, _)
ManipKeys(manipulation, v, deep) ==
    LET inner(w) == IF deep THEN ManipKeys(manipulation, w, deep) ELSE w
    IN  IF v.t = "obj"
        THEN Obj([k2 \in {ManipApply(manipulation, k) : k \in DOMAIN v.o} |->
                    inner(v.o[CHOOSE k \in DOMAIN v.o :
                                 ManipApply(manipulation, k) = k2])])
        ELSE IF v.t = "arr"
        THEN Arr([i \in 1..Len(v.a) |-> inner(v.a[i])])
        ELSE v

(* C13: a flatten rule's manipulation is applied to every object key from  *)
(* which an output key is derived, in recursive flatten at every depth and *)
(* whether or not a prefix is set, and never to an array index token: the  *)
(* entries are those of the same flatten without manipulation of the value *)
(* whose object keys are manipulated at every depth.                       *)
C13_ManipulationEveryDepth ==
    Done =>
       \A j \in FlattenSteps :
          LET dest == RuleOf(Trace[j]).destination
          IN  (FlatWritten(j).found /\ dest.manipulation.some) =>
                 FlatWritten(j).m
                    = flatten(None, dest.separator, dest.prefix,
                              ManipKeys(dest.manipulation.x, FieldOf(j),
                                        dest.recursive),
                              EmptyMap, dest.recursive)

\* the scalars of a value, those of its nested Objects and Arrays included
RECURSIVE Leaves(_)
RECURSIVE LeavesOf(_, _)
LeavesOf(es, i) ==
    IF i > Len(es) THEN <<>>
    ELSE Leaves(es[i].v) \o LeavesOf(es, i + 1)

Leaves(v) ==
    IF v.t \in {"obj", "arr"} THEN LeavesOf(Entries(v), 1) ELSE <<v>>

RangeOf(seq) == {seq[i] : i \in 1..Len(seq)}

(* C14: non-recursive flatten writes the value of each top-level entry     *)
(* unchanged, Object and Array values included; recursive flatten descends *)
(* into every Object and Array at every depth: every value it writes is a  *)
(* scalar, one per scalar of the field, and an empty Object or Array       *)
(* contributes no entry.                                                   *)
C14_FlattenDescent ==
    Done =>
       \A j \in FlattenSteps :
          LET dest == RuleOf(Trace[j]).destination
              m == FlatWritten(j).m
              es == Entries(FieldOf(j))
              leaves == Leaves(FieldOf(j))
          IN  FlatWritten(j).found =>
                 IF dest.recursive
                 THEN /\ \A k \in DOMAIN m : m[k].t \notin {"obj", "arr"}
                      /\ Cardinality(DOMAIN m) = Len(leaves)
                      /\ {m[k] : k \in DOMAIN m} = RangeOf(leaves)
                 ELSE /\ Cardinality(DOMAIN m) = Len(es)
                      /\ {m[k] : k \in DOMAIN m} = {es[i].v : i \in 1..Len(es)}

\* a recursive flatten of an Object that holds an empty Object and an Array
\* of an Object and an empty Array has written the one scalar there is
C14_Witness ==
    /\ Done /\ result.st = "ok"
    /\ Len(Trace) \in FlattenSteps
    /\ FieldOf(Len(Trace))
          = Obj2(Dash1, Obj(EmptyMap), KeyM, Arr(<<Obj1(Dash3, S), Arr(<<>>)>>))
    /\ LET dest == RuleOf(Trace[Len(Trace)]).destination
       IN  /\ dest.type = "FlattenDirect" /\ ~dest.id.some
           /\ dest.recursive /\ dest.manipulation.some
           /\ dest.prefix = <<"p">> /\ dest.separator = <<"_">>
    /\ result.val.o = (<<"p", "_", "m", "_", "1", "_", "q", "-", "3">> :> S)

\* a step that compiles a mapping with an empty `to` fails with
\* InvalidNamespace and leaves the arena, or adds a FlattenDirect rule with
\* id None and an empty prefix-path
C15_Compile ==
    \A mapping \in PlainMappings \cup FlattenMappings :
       (FlattenAdd(mapping) /\ mapping.to = <<>>) =>
          IF mapping.kind = "Flatten"
          THEN /\ phase' = "building"
               /\ Len(added') = Len(added) + 1
               /\ LastAdd.rule.destination.type = "FlattenDirect"
               /\ LastAdd.rule.destination.id = None
               /\ LastAdd.rule.destination.namespace = <<>>
          ELSE /\ phase' = "failed"
               /\ result' = [st |-> "err", err |-> "InvalidNamespace"]
               /\ tree' = tree /\ added' = added

\* the entries of a flatten rule with id None and an empty prefix-path are
\* keys of the output root
C15_IntoRoot ==
    Done =>
       \A j \in 1..Len(Trace) :
          LET dest == RuleOf(Trace[j]).destination
              m == FlattenInto(dest, FieldOf(j), EmptyMap)
              out == IF j = Len(Trace) /\ result.st = "ok"
                     THEN result.val.o ELSE Trace[j].after
          IN  (dest.type = "FlattenDirect" /\ ~dest.id.some) =>
                 /\ dest.namespace = <<>>
                 /\ \A k \in DOMAIN m : k \in DOMAIN out /\ out[k] = m[k]

(* C15: compiling a Direct or Constant mapping whose `to` is the empty     *)
(* string fails with InvalidNamespace; compiling a Flatten mapping whose   *)
(* `to` is the empty string succeeds and yields a FlattenDirect            *)
(* destination with id None and an empty prefix-path, so that the          *)
(* flattened entries are written into the output root.                     *)
C15_EmptyTo == []C15_IntoRoot /\ [][C15_Compile]_vars

\* a flatten of the array a with `to` empty has put its entries in the root,
\* next to the x of an earlier rule
C15_Witness ==
    /\ Done /\ result.st = "ok" /\ Len(added) = 2
    /\ added[2].rule.destination.type = "FlattenDirect"
    /\ added[2].rule.destination.id = None
    /\ result.val.o = (<<"x">> :> K @@ <<"p", "_", "1">> :> S @@ <<"p", "_", "2">> :> T)

-----------------------------------------------------------------------------
(* Namespace::parse as a function of its input: the inputs are the strings *)
(* made of up to MaxTokens tokens, and the one step parses the input.      *)

MaxTokens == 3

Tokens ==
    { <<"a">>, <<".">>, <<"[">>, <<"]">>, <<"1">>, <<"+">>, <<"-">>,
      <<"[", "1", "]">>, <<"[", "0", "]">> }

RECURSIVE StringsUpTo(_)
StringsUpTo(n) ==
    IF n = 0 THEN {<<>>}
    ELSE StringsUpTo(n - 1)
           \cup {s \o t : s \in StringsUpTo(n - 1), t \in Tokens}

ParseInit ==
    /\ tree = ArenaDefault
    /\ mode = "Many2Many"
    /\ phase = "parsing"
    /\ added = <<>>
    /\ input \in {Str(s) : s \in StringsUpTo(MaxTokens)}
    /\ result = NoResult

\* Namespace::parse(input)
ParseInput ==
    /\ phase = "parsing"
    /\ phase' = "parsed"
    /\ result' = NamespaceParse(input.s)
    /\ UNCHANGED <<tree, mode, added, input>>

ParseNext == ParseInput

ParseSpec == ParseInit /\ [][ParseNext]_vars

Parsed == phase = "parsed"

\* the pieces of the grammar, read off the input from left to right: a ']'
\* ends a piece, a '.' or the end of the input ends a piece that is not
\* empty (the trailing empty piece of a split at ']' is discarded)
RECURSIVE ScanPieces(_, _, _)
ScanPieces(s, k, cur) ==
    IF k > Len(s) THEN IF cur = <<>> THEN <<>> ELSE <<cur>>
    ELSE IF s[k] = "]" THEN <<cur>> \o ScanPieces(s, k + 1, <<>>)
    ELSE IF s[k] = "." THEN (IF cur = <<>> THEN <<>> ELSE <<cur>>)
                            \o ScanPieces(s, k + 1, <<>>)
    ELSE ScanPieces(s, k + 1, Append(cur, s[k]))

\* the text of a piece before and after its first '['
HasBracket(piece) == \E i \in 1..Len(piece) : piece[i] = "["
FirstBracket(piece) ==
    CHOOSE i \in 1..Len(piece) :
       piece[i] = "[" /\ \A j \in 1..(i - 1) : piece[j] # "["
BeforeBracket(piece) == SubSeq(piece, 1, FirstBracket(piece) - 1)
AfterBracket(piece) == SubSeq(piece, FirstBracket(piece) + 1, Len(piece))

\* a numeral of a non-negative integer: digits, after a sign or not, a
\* minus sign only before zero; and its value
Unsigned(text) ==
    IF text # <<>> /\ text[1] \in {"+", "-"} THEN Tail(text) ELSE text
IsNumeral(text) ==
    Unsigned(text) # <<>> /\ \A i \in 1..Len(Unsigned(text)) : IsDigit(Unsigned(text)[i])
IsNonNegative(text) ==
    IsNumeral(text) /\ (text[1] = "-" => DigitsVal(Unsigned(text)) = 0)

\* the segment of a piece
SegmentOf(piece) ==
    IF ~HasBracket(piece) THEN ObjectNs(piece)
    ELSE IF IsNonNegative(AfterBracket(piece))
    THEN ArrayNs(BeforeBracket(piece), DigitsVal(Unsigned(AfterBracket(piece))))
    ELSE [kind |-> "None"]

(* C16, as stated: Namespace::parse of the empty string yields exactly one *)
(* segment, Object("").                                                    *)
C16_Original ==
    (Parsed /\ input.s = <<>>) =>
        result = [ok |-> TRUE, ns |-> <<ObjectNs(<<>>)>>]

(* C16, amended: Namespace::parse of the empty string succeeds and yields  *)
(* no segment at all, as it does for every input made of '.' only.         *)
C16_EmptyParse ==
    (Parsed /\ \A i \in 1..Len(input.s) : input.s[i] = ".") =>
        result = [ok |-> TRUE, ns |-> <<>>]

C16_Witness ==
    Parsed /\ input.s = <<>> /\ result.ok /\ Len(result.ns) = 0

(* C17: Namespace::parse splits the input at '.', then each piece at ']';  *)
(* a piece containing '[' gives Array{id = text before '[', index = the    *)
(* integer after it}, any other piece gives Object{id = piece}; segments   *)
(* come out in left-to-right order, so x[i][j] yields Array(x, i) followed *)
(* by Array("", j).                                                        *)
C17_ParseGrammar ==
    (Parsed /\ result.ok) =>
        LET pieces == ScanPieces(input.s, 1, <<>>)
        IN  /\ result.ns = [i \in 1..Len(pieces) |-> SegmentOf(pieces[i])]
            /\ (input.s = <<"a", "[", "1", "]", "[", "0", "]">> =>
                  result.ns = <<ArrayNs(<<"a">>, 1), ArrayNs(<<>>, 0)>>)

C17_Witness ==
    /\ Parsed /\ input.s = <<"a", "[", "1", "]", "[", "0", "]">>
    /\ result.ok /\ Len(result.ns) = 2

(* C18: Namespace::parse fails with InvalidNamespaceArrayIndex and returns *)
(* no segments whenever the text following '[' in any piece is not a       *)
(* non-negative integer (empty text included), however many valid segments *)
(* precede or follow that piece.                                           *)
C18_InvalidIndex ==
    Parsed =>
        LET pieces == ScanPieces(input.s, 1, <<>>)
        IN  (\E i \in 1..Len(pieces) :
                HasBracket(pieces[i]) /\ ~IsNonNegative(AfterBracket(pieces[i])))
               => result = [ok |-> FALSE, err |-> "InvalidNamespaceArrayIndex"]

\* an empty index after a valid segment
C18_Witness ==
    /\ Parsed /\ input.s = <<"a", ".", "[">>
    /\ ~result.ok /\ result.err = "InvalidNamespaceArrayIndex"

-----------------------------------------------------------------------------
(* The builder given mappings one at a time (add_mapping) and as a vector  *)
(* (add_mappings); input holds the vector last handed to add_mappings.     *)

MaxBatch == 2

BatchMappings ==
    { MappingDirect(<<"a">>, <<"x">>),
      MappingDirect(<<"a", ".", "b">>, <<"x", ".", "y">>),
      MappingConstant(K, <<"x", "[", "1", "]">>),
      MappingDirect(<<"a", "[", "]">>, <<"x">>),
      MappingDirect(<<>>, <<"x">>),
      MappingConstant(K, <<>>) }

Batches == SeqsUpTo(BatchMappings, MaxBatch)

Batch(mappings) == [t |-> "mappings", ms |-> mappings]

\* the loop that goes on after a mapping that does not compile and reports
\* the last error
RECURSIVE MappingsLoop_GoOn(_, _, _, _)
MappingsLoop_GoOn(root, log, mappings, i) ==
    IF i > Len(mappings) THEN [ok |-> TRUE, root |-> root, log |-> log]
    ELSE LET Rest(p) ==
                 MappingsLoop_GoOn(
                     IF p.ok THEN add(root, p.ns, p.rule) ELSE root,
                     IF p.ok THEN Append(log, [ns |-> p.ns, rule |-> p.rule])
                     ELSE log,
                     mappings, i + 1)
             Later(p, rest) ==
                 IF p.ok \/ ~rest.ok THEN rest
                 ELSE [ok |-> FALSE, err |-> p.err,
                       root |-> rest.root, log |-> rest.log]
             Added(p) == Later(p, Rest(p))
         IN  Added(TransformParse(mappings[i]))

\* the loop of add_mappings from mapping i on: Transform::parse with `?`,
\* then self.add; root and log are the arena and the adds so far
RECURSIVE MappingsLoop(_, _, _, _)
MappingsLoop(root, log, mappings, i) ==
    IF i > Len(mappings) THEN [ok |-> TRUE, root |-> root, log |-> log]
    ELSE LET Added(p) ==
                 IF ~p.ok
                 THEN [ok |-> FALSE, err |-> p.err, root |-> root, log |-> log]
                 ELSE MappingsLoop(add(root, p.ns, p.rule),
                                   Append(log, [ns |-> p.ns, rule |-> p.rule]),
                                   mappings, i + 1)
         IN  Added(TransformParse(mappings[i]))

\* TransformerBuilder::add_mappings; an error consumes the builder, whose
\* arena is the one the loop had reached
AddMappings(mappings) ==
    /\ phase = "building"
    /\ Len(added) + Len(mappings) <= MaxAdds
    /\ LET Returned(r) ==
               /\ tree' = r.root
               /\ added' = r.log
               /\ IF r.ok
                  THEN /\ phase' = phase
                       /\ result' = NoResult
                  ELSE /\ phase' = "failed"
                       /\ result' = [st |-> "err", err |-> r.err]
       IN  Returned(MappingsLoop(tree, added, mappings, 1))
    /\ input' = Batch(mappings)
    /\ UNCHANGED mode

BatchNext ==
    \/ \E m \in Modes : SetMode(m)
    \/ \E mapping \in BatchMappings : AddMapping(mapping)
    \/ \E mappings \in Batches : AddMappings(mappings)

BatchSpec == Init /\ [][BatchNext]_vars

\* the positions of the mappings of a vector that do not compile
Failing(mappings) ==
    {i \in 1..Len(mappings) : ~TransformParse(mappings[i]).ok}

FirstFailing(mappings) ==
    CHOOSE i \in Failing(mappings) : \A j \in Failing(mappings) : i <= j

\* the adds of the first n mappings of a vector, all of which compile
Compiled(mappings, n) ==
    [i \in 1..n |-> [ns |-> TransformParse(mappings[i]).ns,
                     rule |-> TransformParse(mappings[i]).rule]]

\* a step of add_mappings or add_mapping with a mapping that does not compile
C19_Vector ==
    \A mappings \in Batches :
       (AddMappings(mappings) /\ Failing(mappings) # {}) =>
          LET f == FirstFailing(mappings)
              log == added \o Compiled(mappings, f - 1)
          IN  /\ phase' = "failed"
              /\ result' = [st |-> "err", err |-> TransformParse(mappings[f]).err]
              /\ result'.err \in {"InvalidNamespace", "InvalidNamespaceArrayIndex"}
              /\ added' = log
              /\ tree' = BuildArena(log)

C19_Single ==
    \A mapping \in BatchMappings :
       (AddMapping(mapping) /\ ~TransformParse(mapping).ok) =>
          /\ phase' = "failed"
          /\ result' = [st |-> "err", err |-> TransformParse(mapping).err]
          /\ result'.err \in {"InvalidNamespace", "InvalidNamespaceArrayIndex"}
          /\ added' = added
          /\ tree' = tree

(* C19: add_mapping and add_mappings return the error of the first mapping *)
(* that fails to compile (InvalidNamespace or InvalidNamespaceArrayIndex); *)
(* mappings after it are neither compiled nor added, and the failing       *)
(* mapping itself adds no node and no rule to the arena, which is left     *)
(* exactly as the preceding successful mappings made it.                   *)
C19_FailFast ==
    [][C19_Vector /\ C19_Single]_vars

\* add_mappings of a mapping that compiles, one with an invalid index and
\* one with an empty namespace has failed with the error of the second
C19_Witness ==
    /\ phase = "failed"
    /\ input = Batch(<<MappingDirect(<<"a">>, <<"x">>),
                       MappingDirect(<<"a", "[", "]">>, <<"x">>)>>)
    /\ result = [st |-> "err", err |-> "InvalidNamespaceArrayIndex"]
    /\ Len(added) = 1
    /\ tree = BuildArena(added)

-----------------------------------------------------------------------------
(* A built Transformer applied again and again: input and result hold the  *)
(* texts given to apply_from_str and what each application returned, in    *)
(* the order of the applications.                                          *)

MaxApplies == 3

ReuseMappings ==
    { MappingDirect(<<"a">>, <<"x">>),
      MappingDirect(<<"b">>, <<"x", ".", "y">>),
      MappingConstant(K, <<"x", "[", "1", "]">>) }

\* a text that serde_json::from_str rejects
Malformed == [t |-> "malformed"]

ReuseDocs ==
    { Malformed,
      Obj([k \in {<<"a">>} |-> S]),
      Obj([k \in {<<"a">>, <<"b">>} |-> S]),
      Arr(<<Obj([k \in {<<"a">>} |-> S]), Obj([k \in {<<"b">>} |-> T])>>) }

\* a Transformer built from up to MaxAdds mappings, in either mode
ReuseInit ==
    /\ mode \in Modes
    /\ phase = "built"
    /\ added \in {Compiled(q, Len(q)) : q \in SeqsUpTo(ReuseMappings, MaxAdds)}
    /\ tree = BuildArena(added)
    /\ input = <<>>
    /\ result = <<>>

\* an application that takes the arena out of the Transformer
SelfRoot_Taken(arena) ==
    ArenaDefault

\* &self.root: the arena is lent to transform and is the Transformer's after
SelfRoot(arena) ==
    arena

\* Transformer::apply_from_str
apply_from_str(m, arena, text) ==
    IF text = Malformed THEN [st |-> "err", err |-> "Json"]
    ELSE transform(m, arena, text)

\* one more application of the Transformer; a panic ends the run
ApplyAgain(text) ==
    /\ phase = "built"
    /\ Len(input) < MaxApplies
    /\ LET Returned(r) ==
               /\ result' = Append(result, r)
               /\ phase' = IF r.st = "panic" THEN "panicked" ELSE phase
       IN  Returned(apply_from_str(mode, tree, text))
    /\ input' = Append(input, text)
    /\ tree' = SelfRoot(tree)
    /\ UNCHANGED <<mode, added>>

ReuseNext == \E text \in ReuseDocs : ApplyAgain(text)

ReuseSpec == ReuseInit /\ [][ReuseNext]_vars

\* an application leaves the arena and the mode
C20_Frame ==
    (\E text \in ReuseDocs : ApplyAgain(text)) => (tree' = tree /\ mode' = mode)

\* equal inputs have been given equal outputs, which are those of a
\* Transformer newly built from the same mappings
C20_SameOutput ==
    \A i \in 1..Len(result) :
       /\ result[i] = apply_from_str(mode, BuildArena(added), input[i])
       /\ \A j \in 1..Len(result) : input[i] = input[j] => result[i] = result[j]

-----------------------------------------------------------------------------
(* Rules of the caller that return an error: a builder is given rules by   *)
(* TransformerBuilder::add, among them rules whose apply returns Err, and  *)
(* the Transformer is built and applied.                                   *)

RulePaths == {<<>>, <<SegA>>}

CallerRules == {RuleBX, ErrRule("e1"), ErrRule("e2")}

RuleDocs ==
    { Obj([k \in {<<"b">>} |-> T]),
      Obj([k \in {<<"a">>, <<"b">>} |-> IF k = <<"a">> THEN Obj([j \in {<<"b">>} |-> S]) ELSE T]),
      Arr(<<Obj([k \in {<<"b">>} |-> T]),
            Obj([k \in {<<"a">>, <<"b">>} |-> IF k = <<"a">> THEN Obj([j \in {<<"b">>} |-> S]) ELSE T])>>) }

RuleNext ==
    \/ \E m \in Modes : SetMode(m)
    \/ \E namespace \in RulePaths, rule \in CallerRules : ArenaAdd(namespace, rule)
    \/ Build
    \/ \E doc \in RuleDocs : Apply(doc)

RuleSpec == Init /\ [][RuleNext]_vars

\* the arena with Ok(()) in the place of every Err
Lenient(arena) ==
    [i \in DOMAIN arena |->
       [arena[i] EXCEPT !.rules =
          [k \in DOMAIN arena[i].rules |->
             IF IsErrRule(arena[i].rules[k]) THEN MyRule ELSE arena[i].rules[k]]]]

\* the rule applications of the evaluation of document k of the last
\* application if no rule returned an error, in execution order
WouldFire(k) == EvalRoot(Lenient(tree), EvalDocs[k]).fired

\* the rule of an application
RuleFired(f) == Get(tree, f.node).rules[f.rule]

\* the documents and the positions of the applications that return an error
Errs ==
    UNION { {<<k, i>> : i \in {j \in 1..Len(WouldFire(k)) :
                                 IsErrRule(RuleFired(WouldFire(k)[j]))}} :
            k \in 1..Len(EvalDocs) }

FirstErr ==
    CHOOSE d \in Errs :
       \A e \in Errs : d[1] < e[1] \/ (d[1] = e[1] /\ d[2] <= e[2])

(* C21: if a rule's apply returns an error during evaluation, the apply    *)
(* operation returns that error (the first one in execution order) and no  *)
(* output value: rules later in execution order are not applied, and in    *)
(* Many2Many mode the outputs of the elements already transformed are not  *)
(* returned.                                                               *)
C21_FirstError ==
    (Done /\ Errs # {}) =>
        /\ result = [st |-> "err",
                     err |-> RuleFired(WouldFire(FirstErr[1])[FirstErr[2]]).err]
        /\ EvalRoot(tree, EvalDocs[FirstErr[1]]).fired
             = SubSeq(WouldFire(FirstErr[1]), 1, FirstErr[2] - 1)

\* in Many2Many mode the first element was transformed and a rule of the
\* second element's evaluation returned e2 before one that returns e1
C21_Witness ==
    /\ Done /\ mode = "Many2Many" /\ IsArray(input)
    /\ Errs # {} /\ FirstErr[1] = 2 /\ FirstErr[2] = 2
    /\ Cardinality(Errs) = 2
    /\ result = [st |-> "err", err |-> "e2"]

-----------------------------------------------------------------------------
\* the result is an Array holding one Object per element of the input
OnePerElement ==
    /\ IsArray(result.val)
    /\ Len(result.val.a) = Len(input.a)
    /\ \A i \in 1..Len(input.a) :
          /\ IsObject(result.val.a[i])
          /\ result.val.a[i] = Obj(EvalRoot(tree, input.a[i]).to)

\* the root node was evaluated once against the whole input, every rule of
\* the root node being given the input itself, and the result is an Object
OnceAgainstInput ==
    /\ IsObject(result.val)
    /\ result.val = Obj(EvalRoot(tree, input).to)
    /\ \A i \in TraceAt(0) : Trace[i].from = input
    /\ Cardinality(TraceAt(0)) = Len(Get(tree, 0).rules)

(* C22: the result of an application is an Array holding one Object per   *)
(* input element exactly when the mode is Many2Many and the input is an    *)
(* Array; in every other case (One2One with any input, an array included,  *)
(* or Many2Many with a non-array input) the root node is evaluated once    *)
(* against the whole input, so rules see the array itself, and the result  *)
(* is a single Object.                                                     *)
C22_ModeShape ==
    Applied =>
        IF mode = "Many2Many" /\ IsArray(input)
        THEN OnePerElement
        ELSE OnceAgainstInput

\* One2One on an array: the rule reading index 0 was given the array
C22_Witness ==
    /\ Applied /\ mode = "One2One"
    /\ input = Arr(<<Obj([k \in {<<"a">>} |-> S]), Null>>)
    /\ result.val = Obj([k \in {<<"z">>} |-> Obj([j \in {<<"a">>} |-> S])])

-----------------------------------------------------------------------------
(* The walk of the destination prefix (get_last): mappings whose           *)
(* destinations share the key x as a leaf, as an object prefix and as an   *)
(* array prefix, added in any order and applied.                           *)

WalkMappings ==
    { MappingDirect(<<"a">>, <<"x">>),
      MappingDirect(<<"a", ".", "b">>, <<"x">>),
      MappingDirect(<<"b">>, <<"x", ".", "y">>),
      MappingDirect(<<"a">>, <<"x", ".", "z">>),
      MappingDirect(<<"b">>, <<"x", "[", "1", "]", ".", "y">>) }

WalkDocs ==
    { Obj([k \in {<<"b">>} |-> T]),
      Obj([k \in {<<"a">>, <<"b">>} |-> IF k = <<"a">> THEN S ELSE T]),
      Obj([k \in {<<"a">>, <<"b">>} |->
             IF k = <<"a">> THEN Obj([j \in {<<"b">>} |-> K]) ELSE T]) }

WalkNext ==
    \/ \E m \in Modes : SetMode(m)
    \/ \E mapping \in WalkMappings : AddMapping(mapping)
    \/ Build
    \/ \E doc \in WalkDocs : Apply(doc)

WalkSpec == Init /\ [][WalkNext]_vars

\* the destination's prefix-path holds an Array segment
ArrayPrefix(rule) ==
    \E k \in 1..Len(rule.destination.namespace) :
       rule.destination.namespace[k].kind = "Array"

(* C23: walking a destination prefix-path that contains an Array segment   *)
(* (for instance `to` = `a[0].b`) creates output[id] as an array of        *)
(* `index` Nulls when it is absent, and the walk completes: the prefix     *)
(* walker returns the map of the last object in the chain, into which the  *)
(* leaf is then written.                                                   *)
C23_ArrayPrefixWalk ==
    (Done /\ Len(added) = 1 /\ ArrayPrefix(added[1].rule)) =>
        /\ result.st = "ok"
        /\ result.val.o[<<"x">>] = Arr(<<Null>>)

\* the map that the object path ns leads to in map, from segment k on
RECURSIVE Nested(_, _, _)
Nested(map, ns, k) ==
    IF k > Len(ns) THEN [found |-> TRUE, m |-> map]
    ELSE IF ns[k].id \in DOMAIN map /\ map[ns[k].id].t = "obj"
    THEN Nested(map[ns[k].id].o, ns, k + 1)
    ELSE [found |-> FALSE]

\* the entries of old off the path ns are those of new, from segment k on
RECURSIVE OffPathKept(_, _, _, _)
OffPathKept(old, new, ns, k) ==
    IF k > Len(ns) THEN TRUE
    ELSE /\ \A key \in DOMAIN old :
               key # ns[k].id => key \in DOMAIN new /\ new[key] = old[key]
         /\ (ns[k].id \in DOMAIN old /\ old[ns[k].id].t = "obj") =>
               OffPathKept(old[ns[k].id].o, new[ns[k].id].o, ns, k + 1)

(* C24: rules whose destinations share a prefix-path write into one shared *)
(* nested object: the prefix walk creates an empty object only where the   *)
(* key is absent and otherwise descends into the existing one, so the      *)
(* entries written under that prefix by earlier rules are kept, whatever   *)
(* the order in which the rules were added.                                *)
C24_SharedPrefix ==
    Done =>
       \A j \in 1..Len(Trace) :
          LET dest == RuleOf(Trace[j]).destination
              old == Nested(BeforeOf(j), dest.namespace, 1)
              new == Nested(Trace[j].after, dest.namespace, 1)
              was == IF old.found THEN old.m ELSE EmptyMap
          IN  (dest.type = "Direct" /\ dest.namespace # <<>>) =>
                 /\ new.found
                 /\ DOMAIN new.m = (DOMAIN was) \cup {dest.id}
                 /\ new.m[dest.id] = WrittenBy(Trace[j])
                 /\ \A key \in DOMAIN was : key # dest.id => new.m[key] = was[key]
                 /\ OffPathKept(BeforeOf(j), Trace[j].after, dest.namespace, 1)

\* x.y was added and written before x.z: the object under x holds both
C24_Witness ==
    /\ Applied /\ Len(added) = 2 /\ Len(Trace) = 2
    /\ added[1].rule.destination.id = <<"y">>
    /\ added[2].rule.destination.id = <<"z">>
    /\ added[1].rule.destination.namespace = <<ObjectNs(<<"x">>)>>
    /\ added[2].rule.destination.namespace = <<ObjectNs(<<"x">>)>>
    /\ Trace[1].after = (<<"x">> :> Obj(<<"y">> :> T))
    /\ result.val = Obj(<<"x">> :> Obj((<<"y">> :> T) @@ (<<"z">> :> S)))

(* C25: a FlattenDirect write with id Some replaces last_map[id] by a      *)
(* fresh object holding only the flattened entries, discarding whatever    *)
(* value was at id before; with id None the flattened entries are inserted *)
(* into last_map itself, overwriting the entries whose keys collide and    *)
(* keeping every other existing entry.                                     *)
C25_FlattenDirectWrite ==
    Done =>
       \A j \in 1..Len(Trace) :
          LET dest == RuleOf(Trace[j]).destination
              flat == FlattenInto(dest, FieldOf(j), EmptyMap)
              old == Nested(BeforeOf(j), dest.namespace, 1)
              new == Nested(Trace[j].after, dest.namespace, 1)
              was == IF old.found THEN old.m ELSE EmptyMap
          IN  dest.type = "FlattenDirect" =>
                 /\ new.found
                 /\ IF dest.id.some
                    THEN /\ DOMAIN new.m = (DOMAIN was) \cup {dest.id.x}
                         /\ new.m[dest.id.x] = Obj(flat)
                         /\ \A k \in DOMAIN was :
                               k # dest.id.x => new.m[k] = was[k]
                    ELSE /\ DOMAIN new.m = (DOMAIN was) \cup (DOMAIN flat)
                         /\ \A k \in DOMAIN flat : new.m[k] = flat[k]
                         /\ \A k \in (DOMAIN was) \ (DOMAIN flat) :
                               new.m[k] = was[k]

\* the flatten of {"k-1": s, "m": t} into a root that holds m and x
\* overwrites m and keeps x
C25_Witness ==
    /\ Applied /\ Len(added) = 3 /\ Len(Trace) = 3
    /\ RuleOf(Trace[3]).destination.type = "FlattenDirect"
    /\ ~RuleOf(Trace[3]).destination.id.some
    /\ Trace[2].after = (<<"m">> :> K) @@ (<<"x">> :> K)
    /\ result.val = Obj((Dash1 :> S) @@ (<<"m">> :> T) @@ (<<"x">> :> K))

(* C26: a DirectArray or FlattenArray write to id[index] when             *)
(* last_map[id] already exists and is not an array reports no error and    *)
(* leaves last_map[id] and every other existing entry of the output        *)
(* unchanged.                                                              *)
C26_NotAnArray ==
    Done =>
       \A j \in 1..Len(Trace) :
          LET dest == RuleOf(Trace[j]).destination
              old == Nested(BeforeOf(j), dest.namespace, 1)
          IN  (/\ dest.type \in {"DirectArray", "FlattenArray"}
               /\ old.found
               /\ dest.id \in DOMAIN old.m
               /\ old.m[dest.id].t # "arr") =>
                 /\ Trace[j].after = BeforeOf(j)
                 /\ (j = Len(Trace) => result = [st |-> "ok", val |-> Obj(BeforeOf(j))])

\* x holds a string: the constant for x[2] and the flatten into x[1] both
\* return and leave it
C26_Witness ==
    /\ Applied /\ Len(added) = 3 /\ Len(Trace) = 3
    /\ RuleOf(Trace[2]).destination.type = "DirectArray"
    /\ RuleOf(Trace[3]).destination.type = "FlattenArray"
    /\ Trace[1].after = (<<"x">> :> K)
    /\ input = Obj1(<<"a">>, Obj2(Dash1, S, KeyM, T))
    /\ result.val = Obj(<<"x">> :> K)

(* C27: flatten of a scalar value (the Null that a missing source yields  *)
(* included), recursive or not and with or without manipulation, writes    *)
(* exactly one entry, whose key is the prefix (the empty string when no    *)
(* prefix is set) and whose value is that scalar.                          *)
C27_FlattenScalar ==
    Done =>
       \A j \in 1..Len(Trace) :
          LET dest == RuleOf(Trace[j]).destination
              field == FieldOf(j)
              old == BeforeOf(j)
              new == Trace[j].after
              one == Obj(dest.prefix :> field)
          IN  (IsFlattenRule(RuleOf(Trace[j])) /\ field.t \notin {"obj", "arr"}) =>
                 IF dest.type = "FlattenArray"
                 THEN (dest.id \in DOMAIN old => old[dest.id].t = "arr") =>
                         new[dest.id].a[dest.index + 1] = one
                 ELSE IF dest.id.some
                 THEN new[dest.id.x] = one
                 ELSE new = [k \in (DOMAIN old) \cup {dest.prefix} |->
                               IF k = dest.prefix THEN field ELSE old[k]]

\* the source a is missing: the flatten into the root without prefix writes
\* Null under the empty key
C27_Witness ==
    /\ Applied /\ Len(added) = 1 /\ Len(Trace) = 1
    /\ IsFlattenRule(added[1].rule)
    /\ added[1].rule.destination.prefix = <<>>
    /\ input = Obj(EmptyMap)
    /\ result.val = Obj(<<>> :> Null)

\* a step of Arena::add: every path of the arena before leads, after, to
\* a node of the same kind, id and index under the node its parent path
\* leads to, with the same rules, the added rule being appended at the
\* path of the add; the other nodes of the arena after are the new ones
C28_Step ==
    Adds =>
       LET new == PrefixesOf(added') \ Prefixes
       IN  /\ \A p \in Prefixes :
                LET n == Resolve(tree, p)
                    m == Resolve(tree', p)
                IN  /\ m # -1
                    /\ SegOf(Get(tree', m)) = SegOf(Get(tree, n))
                    /\ Get(tree', m).rules
                         = IF p = LastAdd.ns
                           THEN Append(Get(tree, n).rules, LastAdd.rule)
                           ELSE Get(tree, n).rules
                    /\ p # <<>> =>
                         m \in ChildrenOf(tree', Resolve(tree', SubSeq(p, 1, Len(p) - 1)))
           /\ Len(tree') = Len(tree) + Cardinality(new)
           /\ \A p \in new :
                Get(tree', Resolve(tree', p)).rules
                  = IF p = LastAdd.ns THEN <<LastAdd.rule>> ELSE NoRules

(* C28: Arena.add changes the kind, id, index and rules of no existing     *)
(* node other than appending the new rule to the target node, and keeps    *)
(* every existing parent-child relation: after the add, every path that    *)
(* led to a node before still leads to a node with the same rules (the     *)
(* target node excepted), although node indices and children ranges may    *)
(* have shifted.                                                           *)
C28_AddFrame == [][C28_Step]_vars

\* the add of b below the root has moved the node of a.b from index 2 to
\* index 3, with its rule
C28_Witness ==
    /\ Len(added) = 2
    /\ added[1].ns = <<SegA, SegB>> /\ added[2].ns = <<SegB>>
    /\ Resolve(tree, <<SegB>>) = 2
    /\ Resolve(tree, <<SegA, SegB>>) = 3
    /\ Get(tree, 3).rules = <<added[1].rule>>

(* C29: during evaluation all rules of a node are applied before any rule  *)
(* of its descendants, independently of the order of the adds; hence when  *)
(* a rule on a shallower node and a rule on one of its descendant nodes    *)
(* write the same destination key and both fire, the output holds the      *)
(* value of the rule on the deeper node even if the shallower rule was     *)
(* added last.                                                             *)
C29_DepthOrder ==
    Applied =>
       LET Holds(tr) ==
             \A j \in 1..Len(tr) :
                LET Under(p) ==
                      \A d \in 0..(Len(p) - 1) :
                         LET At(n) ==
                               /\ \A k \in 1..Len(Get(tree, n).rules) :
                                     \E i \in 1..(j - 1) :
                                        tr[i].node = n /\ tr[i].rule = k
                               /\ \A i \in 1..Len(tr) :
                                     tr[i].node = n =>
                                        /\ i < j
                                        /\ ( /\ RuleOf(tr[i]).destination
                                                  = RuleOf(tr[j]).destination
                                             /\ \A l \in (j + 1)..Len(tr) :
                                                   RuleOf(tr[l]).destination.id
                                                     # RuleOf(tr[j]).destination.id ) =>
                                              result.val.o[RuleOf(tr[j]).destination.id]
                                                = WrittenBy(tr[j])
                         IN  At(Resolve(tree, SubSeq(p, 1, d)))
                IN  Under(PathOfNode(tr[j].node))
       IN  Holds(Trace)

\* the rule of the root node was added after the rule of its child b; both
\* fired with different values and the output holds the child's
C29_Witness ==
    /\ Applied /\ Len(added) = 2 /\ Len(Trace) = 2
    /\ added[1].ns = <<SegB>> /\ added[2].ns = <<>>
    /\ Trace[1].node = 0 /\ Trace[2].node = Resolve(tree, <<SegB>>)
    /\ WrittenBy(Trace[1]) # WrittenBy(Trace[2])
    /\ result.val.o[<<"x">>] = WrittenBy(Trace[2])

(* C30: evaluation with built-in rules only (Direct, Constant, Flatten)     *)
(* completes and returns a value for every input document and every        *)
(* sequence of successfully added mappings; in particular the destination  *)
(* prefix walk completes when a prefix key already holds a non-object      *)
(* value written by an earlier rule (Direct a to x followed by Direct b to *)
(* x.y).                                                                   *)
C30_Completes ==
    (Done /\ \A i \in 1..Len(added) : ~ArrayPrefix(added[i].rule)) =>
        result.st = "ok"

=============================================================================
